---- MODULE Spec2Model ----
(***************************************************************************)
(* Model of the Boreal viewer server (src/server.js, src/db.js): the key   *)
(* canonicaliser, the LoS field extraction, the PPM integer/decimal merge, *)
(* the threshold lookup, the notification cooldown and the MQTT message    *)
(* handler that uses them, with its handlers suspended at their awaits.    *)
(*                                                                         *)
(* Strings are sequences of one-character strings.  Numbers are fixed      *)
(* point: the integer n stands for the JavaScript number n / Scale.        *)
(***************************************************************************)
EXTENDS Integers, Sequences, FiniteSets, TLC

VARIABLES rawKey, canon, fmParams, fmLos, handlers, emits, inserts, lastNotificationAt, now, mergePolicy,
          notifications, thresholds, thSerial, thResult,
          cycles, deviceStatus, statusEvents,
          query, live

vars == <<rawKey, canon, fmParams, fmLos, handlers, emits, inserts, lastNotificationAt, now, mergePolicy,
          notifications, thresholds, thSerial, thResult,
          cycles, deviceStatus, statusEvents,
          query, live>>

(***************************************************************************)
(* Strings                                                                 *)
(***************************************************************************)

\* The JavaScript value undefined where a key is expected (a one-token sequence
\* that is no string of the model: every string is made of single characters).
Undefined == <<"undefined">>

UpperLetters == <<"A","B","C","D","E","F","G","H","I","J","K","L","M",
                  "N","O","P","Q","R","S","T","U","V","W","X","Y","Z">>

LowerLetters == <<"a","b","c","d","e","f","g","h","i","j","k","l","m",
                  "n","o","p","q","r","s","t","u","v","w","x","y","z">>

\* The lower-case letter of each upper-case letter.
LowerCaseOf ==
  [c \in {UpperLetters[i] : i \in DOMAIN UpperLetters} |->
     LowerLetters[CHOOSE i \in DOMAIN UpperLetters : UpperLetters[i] = c]]

\* String.prototype.toLowerCase on one character.
toLowerCase(c) == IF c \in DOMAIN LowerCaseOf THEN LowerCaseOf[c] ELSE c

\* The character class [\s\-\(\)_] of canonicalKey's replace().
StrippedChars == {" ", "\t", "\n", "-", "(", ")", "_"}

\* s.includes(sub)
Includes(s, sub) ==
  \E i \in 0..(Len(s) - Len(sub)) : \A j \in 1..Len(sub) : s[i + j] = sub[j]

\* s.endsWith(suf)
EndsWith(s, suf) ==
  /\ Len(suf) <= Len(s)
  /\ \A j \in 1..Len(suf) : s[Len(s) - Len(suf) + j] = suf[j]

KeepAllChars(c) == c \notin {" ", "\t", "\n", "-", "(", ")"}

\* canonicalKey with the underscore left out of the stripped class.
canonicalKeyKeepsUnderscore(k) ==
  LET s == IF k = Undefined \/ k = <<>> THEN <<>> ELSE k
      lowered == [i \in 1..Len(s) |-> toLowerCase(s[i])]
  IN SelectSeq(lowered, KeepAllChars)

NotStripped(c) == c \notin StrippedChars

\* function canonicalKey(k): String(k || '').toLowerCase().replace(/[\s\-\(\)_]/g, '')
canonicalKey(k) ==
  LET s == IF k = Undefined \/ k = <<>> THEN <<>> ELSE k
      lowered == [i \in 1..Len(s) |-> toLowerCase(s[i])]
  IN SelectSeq(lowered, NotStripped)

(***************************************************************************)
(* JSON values and numbers                                                 *)
(***************************************************************************)

\* Fixed-point unit: the integer n stands for the number n / Scale.
Scale == 10 ^ 3

JNum(n) == [t |-> "num", n |-> n, s |-> <<>>]

JStr(s) == [t |-> "str", n |-> 0, s |-> s]

JNull == [t |-> "null", n |-> 0, s |-> <<>>]

\* The JavaScript value undefined (a missing property).
JUndef == [t |-> "undef", n |-> 0, s |-> <<>>]

NaN == [t |-> "nan", n |-> 0, s |-> <<>>]

\* A finite number beyond the range of Date (|x| > 8.64e15), outside the fixed-point range.
JHuge == [t |-> "huge", n |-> 0, s |-> <<>>]

DigitChars == <<"0","1","2","3","4","5","6","7","8","9">>

IsDigit(c) == \E i \in DOMAIN DigitChars : DigitChars[i] = c

DigitValue(c) == (CHOOSE i \in DOMAIN DigitChars : DigitChars[i] = c) - 1

RECURSIVE DigitsValue(_)
\* The value of a non-empty string of decimal digits.
DigitsValue(ds) ==
  IF Len(ds) = 0 THEN 0
  ELSE 10 * DigitsValue(SubSeq(ds, 1, Len(ds) - 1)) + DigitValue(ds[Len(ds)])

\* StringToNumber of ECMAScript for strings without white space, fraction or
\* exponent: the empty string is 0, an optionally signed digit string is its
\* value, anything else is NaN.
StringToNumber(s) ==
  LET signed == Len(s) > 0 /\ s[1] \in {"-", "+"}
      ds == IF signed THEN SubSeq(s, 2, Len(s)) ELSE s
  IN IF Len(s) = 0 THEN JNum(0)
     ELSE IF Len(ds) > 0 /\ \A i \in 1..Len(ds) : IsDigit(ds[i])
       THEN JNum((IF signed /\ s[1] = "-" THEN -1 ELSE 1) * DigitsValue(ds) * Scale)
       ELSE NaN

\* Number(v)
Number(v) ==
  CASE v.t = "num" -> v
    [] v.t = "huge" -> v
    [] v.t = "str" -> StringToNumber(v.s)
    [] v.t = "null" -> JNum(0)
    [] OTHER -> NaN

IsNaN(v) == v.t = "nan"

\* JavaScript truthiness of a value.
Truthy(v) ==
  CASE v.t = "num" -> v.n # 0
    [] v.t = "huge" -> TRUE
    [] v.t = "str" -> v.s # <<>>
    [] OTHER -> FALSE

\* obj[name] for an object given as the sequence of its [k, v] properties in
\* Object.keys order.
Get(obj, name) ==
  IF \E i \in DOMAIN obj : obj[i].k = name
    THEN obj[CHOOSE i \in DOMAIN obj : obj[i].k = name].v
    ELSE JUndef

SetMin(S) == CHOOSE x \in S : \A y \in S : x <= y

(***************************************************************************)
(* extractCanonicalLos                                                     *)
(***************************************************************************)

\* Object.entries(fieldVariants) order.
FieldOrder == <<"los_temp", "los_rx_light", "los_r2", "los_heartbeat", "los_ppm">>

LosFields == {FieldOrder[i] : i \in DOMAIN FieldOrder}

fieldVariants == [
  los_temp |-> <<
      <<"L","o","S","-","T","e","m","p","(","c",")">>,
      <<"L","o","S","-","T","e","m","p">>,
      <<"L","o","S","-","T","e","m","p","(","C",")">>,
      <<"l","o","s","t","e","m","p">>,
      <<"l","o","s","_","t","e","m","p">>
  >>,
  los_rx_light |-> <<
      <<"L","o","S","-","R","x"," ","L","i","g","h","t">>,
      <<"L","o","S","-","R","x","L","i","g","h","t">>,
      <<"L","o","S"," ","R","x"," ","L","i","g","h","t">>,
      <<"l","o","s","r","x","l","i","g","h","t">>
  >>,
  los_r2 |-> <<
      <<"L","o","S","-"," ","R","2">>,
      <<"L","o","S","-","R","2">>,
      <<"L","o","S"," ","-"," ","R","2">>,
      <<"l","o","s","r","2">>
  >>,
  los_heartbeat |-> <<
      <<"L","o","S","-","H","e","a","r","t","B","e","a","t">>,
      <<"L","o","S","-"," ","H","e","a","r","t","B","e","a","t">>,
      <<"l","o","s","h","e","a","r","t","b","e","a","t">>
  >>,
  los_ppm |-> <<
      <<"L","o","S"," ","-"," ","P","P","M">>,
      <<"L","o","S","-"," ","P","P","M">>,
      <<"L","o","S","-","P","P","M">>,
      <<"l","o","s","_","p","p","m">>,
      <<"p","p","m">>,
      <<"l","o","s","p","p","m">>
  >>
]

s_ppm == <<"p","p","m">>

s_losppm == <<"l","o","s","p","p","m">>

\* The canonical forms of each field's variants (canonicalKey(variant)).
canonicalVariants ==
  [f \in LosFields |-> {canonicalKey(fieldVariants[f][j]) : j \in DOMAIN fieldVariants[f]}]

\* The key comparison with a substring test in place of equality.
variantMatchesLoose(ck, cv) == Includes(ck, cv) \/ Includes(cv, ck)

\* if (canonicalKey(key) === canonicalKey(variant)), on the two canonical forms.
variantMatches(ck, cv) == ck = cv

\* The fallback test of extractCanonicalLos on one key.
ppmLikeKey(key) ==
  LET ck == canonicalKey(key)
  IN ck = s_ppm \/ ck = s_losppm \/ EndsWith(ck, s_ppm)

\* function extractCanonicalLos(params): the object result as a function from
\* the fields that were set to their values.  For each field the keys of params
\* are scanned in Object.keys order and the first key equal to any variant sets
\* the field and ends the scan (a JSON value is never undefined); then the first
\* ppm-like key sets los_ppm if it is still undefined.
extractCanonicalLos(params) ==
  LET cks == [i \in DOMAIN params |-> canonicalKey(params[i].k)]
      matching == [f \in LosFields |->
                     {i \in DOMAIN params :
                        \E cv \in canonicalVariants[f] : variantMatches(cks[i], cv)}]
      found == {f \in LosFields : matching[f] # {}}
      exact == [f \in found |-> params[SetMin(matching[f])].v]
      ppmLike == {i \in DOMAIN params : ppmLikeKey(params[i].k)}
  IN IF "los_ppm" \notin found /\ ppmLike # {}
       THEN [f \in found \cup {"los_ppm"} |->
               IF f = "los_ppm" THEN params[SetMin(ppmLike)].v ELSE exact[f]]
       ELSE exact

(***************************************************************************)
(* tryMergePpmParts                                                        *)
(***************************************************************************)

s_int == <<"i","n","t">>

s_mlo == <<"m","l","o">>

s_dec == <<"d","e","c">>

s_decimal == <<"d","e","c","i","m","a","l">>

s_pp == <<"p","p">>

s_mloint == <<"m","l","o","i","n","t">>

\* if (ck.includes('ppm') && (ck.includes('int') || ck.includes('mlo')))
isIntPartKey(ck) == Includes(ck, s_ppm) /\ (Includes(ck, s_int) \/ Includes(ck, s_mlo))

\* if (ck.includes('ppm') && (ck.includes('dec') || ck.includes('decimal')))
isDecPartKey(ck) == Includes(ck, s_ppm) /\ (Includes(ck, s_dec) \/ Includes(ck, s_decimal))

RECURSIVE scanPpmParts(_, _, _)
\* The for loop of tryMergePpmParts from key i on; acc holds intVal and decVal
\* (JUndef while unset); a later candidate overwrites an earlier one.
scanPpmParts(params, i, acc) ==
  IF i > Len(params) THEN acc
  ELSE
    LET ck == canonicalKey(params[i].k)
        raw == params[i].v
        num == IF raw.t \in {"null", "undef"} THEN NaN ELSE Number(raw)
        acc1 == IF (EndsWith(ck, s_int) \/ EndsWith(ck, s_mloint)) /\ Includes(ck, s_pp)
                  THEN [acc EXCEPT !.intVal = num] ELSE acc
        acc2 == IF EndsWith(ck, s_dec) /\ Includes(ck, s_pp)
                  THEN [acc1 EXCEPT !.decVal = num] ELSE acc1
    IN IF IsNaN(num) THEN scanPpmParts(params, i + 1, acc)
       ELSE IF isIntPartKey(ck) THEN scanPpmParts(params, i + 1, [acc EXCEPT !.intVal = num])
       ELSE IF isDecPartKey(ck) THEN scanPpmParts(params, i + 1, [acc EXCEPT !.decVal = num])
       ELSE scanPpmParts(params, i + 1, acc2)

Abs(n) == IF n < 0 THEN -n ELSE n

RECURSIVE DecimalDigits(_)
\* The number of characters of String(m) for an integer m >= 0.
DecimalDigits(m) == IF m < 10 THEN 1 ELSE 1 + DecimalDigits(m \div 10)

\* String(Math.abs(decVal)).length for an integral decVal.
decStrLength(decVal) == DecimalDigits(Abs(decVal.n) \div Scale)

\* The divisor with a lone digit read as tenths.
ppmDivisorTenths(len) == 10 ^ len

\* const divisor = decStr.length === 1 ? 100 : 10 ** decStr.length;
ppmDivisor(len) == IF len = 1 THEN 100 ELSE 10 ^ len

\* a / b for an integer a that b divides, of either sign.
Quotient(a, b) == IF a < 0 THEN -((-a) \div b) ELSE a \div b

\* const merged = Number(intVal) + sign * (Number(decVal) / divisor);
mergedPpm(intVal, decVal) ==
  LET divisor == ppmDivisor(decStrLength(decVal))
      sign == IF intVal.n < 0 THEN -1 ELSE 1
  IN JNum(intVal.n + sign * Quotient(decVal.n, divisor))

\* An object with one property set: obj[f] = v.
SetField(obj, f, v) == [g \in DOMAIN obj \cup {f} |-> IF g = f THEN v ELSE obj[g]]

\* function tryMergePpmParts(params, los): los after the call.
tryMergePpmParts(params, los) ==
  LET parts == scanPpmParts(params, 1, [intVal |-> JUndef, decVal |-> JUndef])
  IN IF parts.intVal.t # "undef" /\ parts.decVal.t # "undef"
       THEN SetField(los, "los_ppm", mergedPpm(parts.intVal, parts.decVal))
       ELSE los

(***************************************************************************)
(* Configuration                                                           *)
(***************************************************************************)

MQTT_TOPIC_2 == "BivicomData2"

MQTT_TOPIC_3 == "BivicomData3"

DATA_TOPICS == {MQTT_TOPIC_2, MQTT_TOPIC_3}

MODBUS_TOPIC == "modbus/gsm_signal"

MQTT_TOPIC_2_SERIAL == JStr(<<"B","4","5","2","A","2","5","0","3","2","1","0","2">>)

MQTT_TOPIC_3_SERIAL == JStr(<<"B","4","5","2","A","2","5","0","3","2","1","0","3">>)

\* Seconds; the clock of the model counts seconds too.
NOTIFY_COOLDOWN_SECS == 60

\* Date.now() when the server starts: later than one cooldown after the epoch.
StartTime == NOTIFY_COOLDOWN_SECS + 1

\* The merge policies of the specification's data model (section 3); the
\* device-to-policy table is static configuration.
MergePolicies == {"IntegerOnly", "IntegerPlusFraction"}

(***************************************************************************)
(* The MQTT message handler                                                *)
(***************************************************************************)

k_serial_number == <<"s","e","r","i","a","l","_","n","u","m","b","e","r">>

k_serial == <<"s","e","r","i","a","l">>

k_ts == <<"t","s">>

k_los_ppm == <<"l","o","s","_","p","p","m">>

k_ppm == <<"p","p","m">>

\* A message body that JSON.parse turns into an object: its own properties and,
\* when it has an object under "params", that object's properties.
ObjectBody(top) == [kind |-> "object", top |-> top, hasParams |-> FALSE, params |-> <<>>]

ObjectBodyWithParams(top, params) ==
  [kind |-> "object", top |-> top, hasParams |-> TRUE, params |-> params]

\* A body that is not JSON, or JSON for a string, a number, a boolean or null.
TextBody == [kind |-> "text", top |-> <<>>, hasParams |-> FALSE, params |-> <<>>]

\* A body that is a JSON array: typeof gives 'object' and its own properties
\* are its indices ("0", "1", ...), given in top.
ArrayBody(top) == [kind |-> "array", top |-> top, hasParams |-> FALSE, params |-> <<>>]

\* typeof payload === 'object' for a payload that is not null.
isObject(body) == body.kind \in {"object", "array"}

\* params: payload.params when that is an object, else the payload, else {}.
paramsOf(body) ==
  IF isObject(body)
    THEN (IF body.hasParams THEN body.params ELSE body.top)
    ELSE <<>>

\* a || b
Or(a, b) == IF Truthy(a) THEN a ELSE b

\* a ?? b
Coalesce(a, b) == IF a.t \in {"null", "undef"} THEN b ELSE a

\* serial_number: the payload's or the params' serial, else the topic's.
serialOf(body, topic) ==
  LET params == paramsOf(body)
      embedded == Or(Or(Or(Get(body.top, k_serial_number), Get(body.top, k_serial)),
                        Or(Get(params, k_serial_number), Get(params, k_serial))),
                     JUndef)
  IN IF Truthy(embedded) THEN embedded
     ELSE IF topic = MQTT_TOPIC_2 THEN MQTT_TOPIC_2_SERIAL
     ELSE IF topic = MQTT_TOPIC_3 THEN MQTT_TOPIC_3_SERIAL
     ELSE JUndef

\* mqttTs: Number(payload.ts) when ts is present, not null and numeric.
mqttTsOf(body) ==
  LET raw == IF isObject(body) THEN Get(body.top, k_ts) ELSE JUndef
  IN IF raw.t \notin {"undef", "null"} /\ ~IsNaN(Number(raw)) THEN Number(raw) ELSE JUndef

\* The los_ppm normalisation with the parsed number dropped.
normalizeLosPpmSkipped(los) == los

\* normalize los_ppm numeric: a defined, non-null los_ppm that Number() can
\* parse is replaced by the number.
normalizeLosPpm(los) ==
  IF "los_ppm" \in DOMAIN los /\ los["los_ppm"].t # "null"
       /\ ~IsNaN(Number(los["los_ppm"]))
    THEN SetField(los, "los_ppm", Number(los["los_ppm"]))
    ELSE los

\* A normaliser that keeps state: only the first message is extracted.
losOfFirstMessage(body) ==
  IF handlers = <<>>
    THEN normalizeLosPpm(tryMergePpmParts(paramsOf(body), extractCanonicalLos(paramsOf(body))))
    ELSE [f \in {} |-> JUndef]

\* los as the handler emits it: extraction, merge, normalisation.
losOf(body) ==
  normalizeLosPpm(tryMergePpmParts(paramsOf(body), extractCanonicalLos(paramsOf(body))))

\* numOrNull of insertLosData.
numOrNull(v) ==
  IF v.t \in {"null", "undef"} \/ (v.t = "str" /\ v.s = <<>>) THEN JNull
  ELSE IF Number(v).t \in {"num", "huge"} THEN Number(v) ELSE JNull

\* pick(...) of insertLosData on the normalised field names the server produces.
pick(los, f) == IF f \in DOMAIN los THEN los[f] ELSE JUndef

\* The row insertLosData sends to the database.
insertRow(h, los, receivedAt, serial) ==
  [h |-> h,
   los_temp |-> numOrNull(pick(los, "los_temp")),
   los_rx_light |-> numOrNull(pick(los, "los_rx_light")),
   los_r2 |-> numOrNull(pick(los, "los_r2")),
   los_heartbeat |-> numOrNull(pick(los, "los_heartbeat")),
   los_ppm |-> numOrNull(pick(los, "los_ppm")),
   recorded_at |-> receivedAt,
   serial_number |-> IF Truthy(serial) THEN serial ELSE JNull]

\* rawPpm and ppmNumber of the notification logic.
ppmNumberOf(los, params) ==
  LET rawPpm == Coalesce(pick(los, "los_ppm"),
                  Coalesce(pick(los, "ppm"),
                    Coalesce(Get(params, k_los_ppm), Get(params, k_ppm))))
  IN IF rawPpm.t \in {"num", "huge"} THEN rawPpm
     ELSE IF rawPpm.t # "undef" THEN Number(rawPpm) ELSE NaN

\* One run of the handler: what it was called with, where it is suspended and
\* the locals it keeps across its awaits.
HandlerRec(topic, retain, pc, body, serial, los, ts, receivedAt) ==
  [topic |-> topic, retain |-> retain, pc |-> pc, params |-> paramsOf(body),
   kind |-> body.kind, serial_number |-> serial, los |-> los, ts |-> ts,
   received_at |-> receivedAt,
   ppmNumber |-> ppmNumberOf(los, paramsOf(body)), threshold |-> JUndef,
   body |-> body, failed |-> {}]

Event(name, h, topic, serial, los, ts, receivedAt) ==
  [event |-> name, h |-> h, topic |-> topic, serial_number |-> serial, los |-> los,
   ts |-> ts, received_at |-> receivedAt]

NoLos == [f \in {} |-> JUndef]

\* fmLos before extractCanonicalLos has run.
NotExtracted == [pending |-> JUndef]

\* thResult before getLosThreshold has run.
NotLookedUp == [t |-> "pending", n |-> 0, s |-> <<>>]

\* No ping cycle was started: deviceStatus is an empty Map (server.js:326)
\* and nothing was broadcast about a device.
PingIdle ==
  /\ cycles = <<>>
  /\ deviceStatus = <<>>
  /\ statusEvents = <<>>

\* null, for a hash of the query client.
NoHash == <<"null">>

\* The query client after its script has run (query-client.js:1396-1405):
\* empty inputs, the first station selected, nothing cached, no request
\* under way, no event of the user handled.
InitialQuery ==
  [fromInput |-> 0, toInput |-> 0, station |-> MQTT_TOPIC_2_SERIAL, currentPage |-> 0,
   pageCache |-> <<>>, lastRequestParamsHash |-> <<>>, totalScanInProgressForHash |-> NoHash,
   fetches |-> <<>>, userEvents |-> 0]

\* A tile without a reading.
EmptyTile == [value |-> JNull, updated_at |-> 0, by |-> <<>>]

\* The live client after its script has run (client.js:48-55, 137): no
\* station selected, no status known, every tile empty, the list of the
\* stations still being fetched.
InitialLive ==
  [phase |-> "loading", selectedSerial |-> <<>>, deviceOnline |-> "null",
   deviceStatusMap |-> <<>>, latest |-> [f \in LosFields |-> EmptyTile],
   stations |-> <<>>, events |-> 0, selectedAt |-> 0,
   last |-> [kind |-> "none", matched |-> FALSE, offline |-> FALSE, changed |-> FALSE]]

\* Neither client has handled an event.
ClientsIdle ==
  /\ query = InitialQuery
  /\ live = InitialLive

\* Where the handler goes once the insert is over or was skipped: the
\* threshold lookup when ppmNumber is a number, else the end.
pcAfterInsert(ppmNumber) == IF IsNaN(ppmNumber) THEN "done" ELSE "threshold"

\* The retained-message guard with the early return removed.
retainedPacketProcessed(retain) == FALSE

\* if (packet && packet.retain) return;
retainedPacket(retain) == retain

\* The insert guard of a server that saves every message.
hasLosFieldsOrSaveAll(los) == TRUE

\* if (los && Object.keys(los).length > 0)
hasLosFields(los) == DOMAIN los # {}

\* A storage that takes up the newest query first.
issueQueryFirst(queue, row) == <<row>> \o queue

\* pool.query(sql, values) of insertLosData: the query joins those issued.
issueQuery(queue, row) == Append(queue, row)

\* client.on('message', ...) up to its first await.
OnMessage(topic, retain, body) ==
  LET h == Len(handlers) + 1
      serial == serialOf(body, topic)
      los == losOf(body)
      ts == mqttTsOf(body)
      receivedAt == IF ts.t = "undef" THEN now ELSE ts.n
      rec(pc) == HandlerRec(topic, retain, pc, body, serial, los, ts, receivedAt)
      idle == HandlerRec(topic, retain, "ignored", TextBody, JUndef, NoLos, JUndef, now)
  IN IF retainedPacket(retain) \/ (topic # MODBUS_TOPIC /\ topic \notin DATA_TOPICS)
       THEN /\ handlers' = Append(handlers, idle)
            /\ UNCHANGED <<emits, inserts, lastNotificationAt, now, notifications>>
     ELSE IF topic = MODBUS_TOPIC
       THEN /\ handlers' = Append(handlers, [idle EXCEPT !.pc = "done"])
            /\ emits' = Append(emits, Event("signal", h, topic, JUndef, NoLos, JUndef, now))
            /\ UNCHANGED <<inserts, lastNotificationAt, now, notifications>>
     ELSE IF ts.t = "huge"
       THEN \* new Date(mqttTs).toISOString() throws a RangeError
            /\ handlers' = Append(handlers, rec("threw"))
            /\ UNCHANGED <<emits, inserts, lastNotificationAt, now, notifications>>
     ELSE /\ emits' = Append(emits, Event("mqtt_message", h, topic, serial, los, ts, receivedAt))
          /\ IF hasLosFields(los)
               THEN /\ inserts' = issueQuery(inserts, insertRow(h, los, receivedAt, serial))
                    /\ handlers' = Append(handlers, rec("insert"))
               ELSE /\ inserts' = inserts
                    /\ handlers' = Append(handlers, rec(pcAfterInsert(ppmNumberOf(los, paramsOf(body)))))
          /\ UNCHANGED <<lastNotificationAt, now, notifications>>

\* await insertLosData(...) returns (the row id, or null after a failed query);
\* the handler goes on to the notification logic.
InsertDone(h) ==
  /\ handlers[h].pc = "insert"
  /\ handlers' = [handlers EXCEPT ![h].pc = pcAfterInsert(handlers[h].ppmNumber)]
  /\ UNCHANGED <<emits, inserts, lastNotificationAt, now, notifications>>

\* A failed insert that is tried once more.
InsertFailedRetries(h) ==
  /\ handlers[h].pc = "insert"
  /\ handlers' = [handlers EXCEPT ![h].pc = pcAfterInsert(handlers[h].ppmNumber),
                                  ![h].failed = @ \cup {"insert"}]
  /\ inserts' = issueQuery(inserts, CHOOSE r \in {inserts[i] : i \in DOMAIN inserts} : r.h = h)
  /\ UNCHANGED <<emits, lastNotificationAt, now, notifications>>

\* The query of insertLosData is rejected: insertLosData logs the error and
\* returns null, and the handler goes on to the notification logic.
InsertFailed(h) ==
  /\ handlers[h].pc = "insert"
  /\ handlers' = [handlers EXCEPT ![h].pc = pcAfterInsert(handlers[h].ppmNumber),
                                  ![h].failed = @ \cup {"insert"}]
  /\ UNCHANGED <<emits, inserts, lastNotificationAt, now, notifications>>

\* lastNotificationAt.get(serial) || 0
lastNotified(serial) ==
  IF serial \in DOMAIN lastNotificationAt THEN lastNotificationAt[serial] ELSE 0

\* The rate limiter with the cooldown test left out.
canNotifyWithoutCooldown(serial) == TRUE

\* function canNotify(serial), the clock in seconds.
canNotify(serial) == ~Truthy(serial) \/ now - lastNotified(serial) >= NOTIFY_COOLDOWN_SECS

\* The notification logic once getLosThreshold has returned threshold, after
\* the failures (if any) of its queries: the handler compares, asks canNotify
\* and, when that allows, calls sendNotificationToAll.
AlertEvaluation(h, threshold, failures) ==
  /\ handlers[h].pc = "threshold"
  /\ LET serial == handlers[h].serial_number
         over == /\ threshold.t = "num"
                 /\ \/ handlers[h].ppmNumber.t = "huge"
                    \/ handlers[h].ppmNumber.n > threshold.n
     IN IF over /\ canNotify(serial)
          THEN /\ handlers' = [handlers EXCEPT ![h].pc = "notify", ![h].threshold = threshold,
                                               ![h].failed = @ \cup failures]
               /\ lastNotificationAt' =
                    IF Truthy(serial)
                      THEN [s \in DOMAIN lastNotificationAt \cup {serial} |->
                              IF s = serial THEN now ELSE lastNotificationAt[s]]
                      ELSE lastNotificationAt
               /\ notifications' = Append(notifications,
                    [h |-> h, serial_number |-> serial, ppm |-> handlers[h].ppmNumber,
                     threshold |-> threshold, at |-> now])
          ELSE /\ handlers' = [handlers EXCEPT ![h].pc = "done", ![h].threshold = threshold,
                                               ![h].failed = @ \cup failures]
               /\ UNCHANGED <<lastNotificationAt, notifications>>
  /\ UNCHANGED <<emits, inserts, now>>

\* await getLosThreshold(serial_number) returns threshold.
ThresholdDone(h, threshold) == AlertEvaluation(h, threshold, {})

\* A lookup that answers a failed query with a threshold of zero.
lookupErrorResultZero == JNum(0 * Scale)

\* catch (err) { ...; return null; } of getLosThreshold
lookupErrorResult == JNull

\* A query of getLosThreshold is rejected: the lookup returns null.
LookupFailed(h) == AlertEvaluation(h, lookupErrorResult, {"lookup"})

\* await sendNotificationToAll(...) returns; the handler emits 'alarm'.
NotifyDone(h) ==
  /\ handlers[h].pc = "notify"
  /\ handlers' = [handlers EXCEPT ![h].pc = "done"]
  /\ emits' = Append(emits, Event("alarm", h, handlers[h].topic, handlers[h].serial_number,
                                  handlers[h].los, handlers[h].ts, handlers[h].received_at))
  /\ UNCHANGED <<inserts, lastNotificationAt, now, notifications>>

\* What getLosThreshold can return: null (no threshold, or a failed query) or a number.
ThresholdResults == {JNull, JNum(10 * Scale)}

\* A row of the thresholds table.
ThresholdRow(serial, indicator, threshold) ==
  [serial_number |-> serial, indicator |-> indicator, threshold |-> threshold]

\* const ind = (row.indicator || '').toString().toLowerCase();
indicatorOf(row) ==
  IF Truthy(row.indicator) /\ row.indicator.t = "str"
    THEN [i \in 1..Len(row.indicator.s) |-> toLowerCase(row.indicator.s[i])]
    ELSE <<>>

\* function pickThresholdFromRows(rows): the first row whose indicator mentions
\* ppm and whose threshold is a number, else the first row whose threshold is a
\* number, else null.
pickThresholdFromRows(rows) ==
  LET numeric(i) == ~IsNaN(Number(rows[i].threshold))
      ppmRows == {i \in DOMAIN rows : Includes(indicatorOf(rows[i]), s_ppm) /\ numeric(i)}
      anyRows == {i \in DOMAIN rows : numeric(i)}
  IN IF ppmRows # {} THEN Number(rows[SetMin(ppmRows)].threshold)
     ELSE IF anyRows # {} THEN Number(rows[SetMin(anyRows)].threshold)
     ELSE JNull

\* SELECT indicator, threshold FROM thresholds
legacyRows(table) == table

\* async function getLosThreshold(serialNumber) on a table that answers its
\* three queries: the device's rows, the rows without a serial, every row.
getLosThreshold(table, serialNumber) ==
  LET IsOwn(r) == r.serial_number = serialNumber
      IsGlobal(r) == r.serial_number.t = "null"
      t == IF Truthy(serialNumber) THEN pickThresholdFromRows(SelectSeq(table, IsOwn)) ELSE JNull
      tGlobal == pickThresholdFromRows(SelectSeq(table, IsGlobal))
      tAny == pickThresholdFromRows(legacyRows(table))
  IN IF t # JNull THEN t
     ELSE IF tGlobal # JNull THEN tGlobal
     ELSE tAny

(***************************************************************************)
(* Normalisation of PPM payloads: one message per behaviour, drawn from    *)
(* payloads of PPM-related keys.                                           *)
(***************************************************************************)

\* The largest number of keys of a PPM payload.
MaxMergeKeys == 2

K_PPM_INT == <<"P","P","M","_","I","N","T">>

K_PPM_DEC == <<"P","P","M","_","D","E","C">>

K_LOS_PPM == <<"L","o","S"," ","-"," ","P","P","M">>

K_DEC_PPM == <<"D","e","c"," ","P","P","M">>

K_PPM_M_LO == <<"P","P","M","-","M","-","L","O">>

K_LOS_TEMP == <<"L","o","S","-","T","e","m","p">>

V_abc == JStr(<<"a","b","c">>)

V_str42 == JStr(<<"4","2">>)

V_str12 == JStr(<<"1","2">>)

V_str05 == JStr(<<"0","5">>)

Whole(i) == JNum(i * Scale)

IntPartValues == {Whole(12), Whole(8), Whole(-7), Whole(0), V_str12, V_abc, JNull}

DecPartValues == {Whole(5), Whole(50), Whole(7), Whole(3), Whole(123), Whole(-5), V_str05, V_abc}

PlainValues == {Whole(42), V_str42, V_abc}

MergePairs ==
  {[k |-> K_PPM_INT, v |-> v] : v \in IntPartValues}
    \cup {[k |-> K_PPM_DEC, v |-> v] : v \in DecPartValues}
    \cup {[k |-> K_LOS_PPM, v |-> v] : v \in PlainValues}
    \cup {[k |-> K_DEC_PPM, v |-> Whole(5)], [k |-> K_PPM_M_LO, v |-> Whole(9)],
          [k |-> K_LOS_TEMP, v |-> Whole(21)]}

\* JSON objects: sequences of properties with pairwise distinct keys.
ObjectsOver(pairs, maxKeys) ==
  UNION {{o \in [1..n -> pairs] : \A i, j \in 1..n : i # j => o[i].k # o[j].k}
           : n \in 0..maxKeys}

MergePayloads == ObjectsOver(MergePairs, MaxMergeKeys)

Serials == {MQTT_TOPIC_2_SERIAL, MQTT_TOPIC_3_SERIAL}

InitMerge ==
  /\ rawKey = <<>>
  /\ canon = <<>>
  /\ fmParams = <<>>
  /\ fmLos = NotExtracted
  /\ handlers = <<>>
  /\ emits = <<>>
  /\ inserts = <<>>
  /\ lastNotificationAt = <<>>
  /\ now = StartTime
  /\ mergePolicy \in [Serials -> MergePolicies]
  /\ notifications = <<>>
  /\ thresholds = <<>>
  /\ thSerial = JUndef
  /\ thResult = NotLookedUp
  /\ ClientsIdle
  /\ PingIdle

MergeMessage ==
  /\ handlers = <<>>
  /\ \E topic \in DATA_TOPICS, p \in MergePayloads : OnMessage(topic, FALSE, ObjectBody(p))
  /\ UNCHANGED <<rawKey, canon, fmParams, fmLos, mergePolicy, thresholds, thSerial, thResult, cycles, deviceStatus, statusEvents, query, live>>

HandlerInsertDone ==
  /\ \E h \in DOMAIN handlers : InsertDone(h)
  /\ UNCHANGED <<rawKey, canon, fmParams, fmLos, mergePolicy, thresholds, thSerial, thResult, cycles, deviceStatus, statusEvents, query, live>>

HandlerThresholdDone ==
  /\ \E h \in DOMAIN handlers, t \in ThresholdResults : ThresholdDone(h, t)
  /\ UNCHANGED <<rawKey, canon, fmParams, fmLos, mergePolicy, thresholds, thSerial, thResult, cycles, deviceStatus, statusEvents, query, live>>

HandlerNotifyDone ==
  /\ \E h \in DOMAIN handlers : NotifyDone(h)
  /\ UNCHANGED <<rawKey, canon, fmParams, fmLos, mergePolicy, thresholds, thSerial, thResult, cycles, deviceStatus, statusEvents, query, live>>

NextMerge == MergeMessage \/ HandlerInsertDone \/ HandlerThresholdDone \/ HandlerNotifyDone

SpecMerge == InitMerge /\ [][NextMerge]_vars

(***************************************************************************)
(* Properties of the PPM merge, stated on the 'mqtt_message' events        *)
(***************************************************************************)

MqttMessages == {i \in DOMAIN emits : emits[i].event = "mqtt_message"}

\* The payload object the handler of event i extracted from.
PayloadOf(i) == handlers[emits[i].h].params

\* The concentration of the reading of event i (JUndef when it has none).
Concentration(i) == pick(emits[i].los, "los_ppm")

\* A value is numeric when Number() makes a number of it and it is not null.
Numeric(v) == v.t \notin {"null", "undef"} /\ Number(v).t = "num"

IntPartKeys(p) == {j \in DOMAIN p : isIntPartKey(canonicalKey(p[j].k))}

DecPartKeys(p) == {j \in DOMAIN p : ~isIntPartKey(canonicalKey(p[j].k))
                                      /\ isDecPartKey(canonicalKey(p[j].k))}

\* Keys that mention ppm and are neither integer-part nor decimal-part keys.
PlainPpmKeys(p) == {j \in DOMAIN p : /\ Includes(canonicalKey(p[j].k), s_ppm)
                                     /\ ~isIntPartKey(canonicalKey(p[j].k))
                                     /\ ~isDecPartKey(canonicalKey(p[j].k))}

The(S) == CHOOSE x \in S : TRUE

\* The payload has exactly one integer-part key and one decimal-part key, both
\* with whole-number values.
HasBothParts(p) ==
  /\ Cardinality(IntPartKeys(p)) = 1
  /\ Cardinality(DecPartKeys(p)) = 1
  /\ Numeric(p[The(IntPartKeys(p))].v)
  /\ Numeric(p[The(DecPartKeys(p))].v)

IntPartOf(p) == Number(p[The(IntPartKeys(p))].v).n

DecPartOf(p) == Number(p[The(DecPartKeys(p))].v).n

\* C1: a payload with an integer part i >= 0 and a decimal part d in 0..99
\* gets the concentration i + d/100.
C1_MergeIsIntPlusHundredths ==
  \A i \in MqttMessages :
    LET p == PayloadOf(i)
    IN (HasBothParts(p) /\ IntPartOf(p) >= 0
          /\ DecPartOf(p) >= 0 /\ DecPartOf(p) <= 99 * Scale)
         => Concentration(i) = JNum(IntPartOf(p) + DecPartOf(p) \div 100)

\* {"PPM_INT": 12, "PPM_DEC": 5} was handled and gave 12.05.
C1_Witness ==
  \E i \in MqttMessages :
    /\ PayloadOf(i) = <<[k |-> K_PPM_INT, v |-> Whole(12)], [k |-> K_PPM_DEC, v |-> Whole(5)]>>
    /\ Concentration(i) = JNum(12 * Scale + 5 * (Scale \div 100))

\* C2: the sign of the result is the sign of the integer part and the fraction
\* comes from the absolute value of the decimal part (here for decimal parts of
\* at most two digits): the result is sign(i) * (|i| + |d|/100).
C2_SignFromIntegerPart ==
  \A i \in MqttMessages :
    LET p == PayloadOf(i)
    IN (HasBothParts(p) /\ Abs(DecPartOf(p)) <= 99 * Scale)
         => Concentration(i) =
              JNum((IF IntPartOf(p) < 0 THEN -1 ELSE 1)
                     * (Abs(IntPartOf(p)) + Abs(DecPartOf(p)) \div 100))

\* The two leading digits of a whole number m >= 0 (m itself below 100).
RECURSIVE LeadingTwoDigits(_)
LeadingTwoDigits(m) == IF m < 100 THEN m ELSE LeadingTwoDigits(m \div 10)

\* C3: of a decimal part of three or more digits only the two leading digits
\* are the fraction, and every merged concentration is a whole number of
\* hundredths.
C3_TwoFractionalDigits ==
  \A i \in MqttMessages :
    LET p == PayloadOf(i)
    IN (HasBothParts(p) /\ IntPartOf(p) >= 0 /\ DecPartOf(p) >= 0)
         => /\ Concentration(i).t = "num"
            /\ Concentration(i).n % (Scale \div 100) = 0
            /\ Concentration(i).n =
                 IntPartOf(p) + LeadingTwoDigits(DecPartOf(p) \div Scale) * (Scale \div 100)

\* C4: a numeric integer-part key and no numeric decimal-part key (and no other
\* ppm key): the concentration is the integer value alone.
C4_IntegerAlone ==
  \A i \in MqttMessages :
    LET p == PayloadOf(i)
    IN (/\ Cardinality(IntPartKeys(p)) = 1
        /\ Numeric(p[The(IntPartKeys(p))].v)
        /\ PlainPpmKeys(p) = {}
        /\ \A j \in DecPartKeys(p) : ~Numeric(p[j].v))
         => Concentration(i) = Number(p[The(IntPartKeys(p))].v)

\* C5: no numeric integer part (no integer-part key and no plain ppm key with a
\* numeric value) but a numeric decimal part: the reading has no concentration.
C5_NoIntegerNoConcentration ==
  \A i \in MqttMessages :
    LET p == PayloadOf(i)
    IN (/\ \A j \in IntPartKeys(p) \cup PlainPpmKeys(p) : ~Numeric(p[j].v)
        /\ \E j \in DecPartKeys(p) : Numeric(p[j].v))
         => Concentration(i).t \in {"undef", "null"}

P_Int8Dec7 == <<[k |-> K_PPM_INT, v |-> Whole(8)], [k |-> K_PPM_DEC, v |-> Whole(7)]>>

\* C6: {"PPM_INT": 8, "PPM_DEC": 7} gives 8 through a device whose policy is
\* IntegerOnly and 8.07 through any other device.
C6_PolicyByDevice ==
  \A i \in MqttMessages :
    PayloadOf(i) = P_Int8Dec7
      => Concentration(i) =
           IF mergePolicy[emits[i].serial_number] = "IntegerOnly"
             THEN Whole(8)
             ELSE JNum(8 * Scale + 7 * (Scale \div 100))

\* C7: a plain ppm key (neither rule) is the integer part when there is no
\* integer-part key: with a decimal part d in 0..99 the concentration under the
\* default policy is the merged value, {"LoS - PPM": 42, "PPM_DEC": 5} -> 42.05.
C7_PlainKeyIsIntegerPart ==
  \A i \in MqttMessages :
    LET p == PayloadOf(i)
    IN (/\ IntPartKeys(p) = {}
        /\ Cardinality(PlainPpmKeys(p)) = 1
        /\ Numeric(p[The(PlainPpmKeys(p))].v)
        /\ Number(p[The(PlainPpmKeys(p))].v).n >= 0
        /\ Cardinality(DecPartKeys(p)) = 1
        /\ Numeric(p[The(DecPartKeys(p))].v)
        /\ DecPartOf(p) >= 0 /\ DecPartOf(p) <= 99 * Scale
        /\ mergePolicy[emits[i].serial_number] = "IntegerPlusFraction")
         => Concentration(i) =
              JNum(Number(p[The(PlainPpmKeys(p))].v).n + DecPartOf(p) \div 100)

MaxRawKeyLen == 3

\* Letters of both cases, every character of the stripped class but the line
\* feed, a digit and a punctuation mark that is kept.
CanonAlphabet == {"A", "a", "s", " ", "\t", "-", "(", ")", "_", "2", "."}

RawKeys == {Undefined} \cup UNION {[1..n -> CanonAlphabet] : n \in 0..MaxRawKeyLen}

\* canon before canonicalKey has run.
NotRun == <<"not run">>

InitCanon ==
  /\ rawKey \in RawKeys
  /\ canon = NotRun
  /\ fmParams = <<>>
  /\ fmLos = NotExtracted
  /\ handlers = <<>>
  /\ emits = <<>>
  /\ inserts = <<>>
  /\ lastNotificationAt = <<>>
  /\ now = StartTime
  /\ mergePolicy = [s \in Serials |-> "IntegerPlusFraction"]
  /\ notifications = <<>>
  /\ thresholds = <<>>
  /\ thSerial = JUndef
  /\ thResult = NotLookedUp
  /\ ClientsIdle
  /\ PingIdle

Canonicalize ==
  /\ canon = NotRun
  /\ canon' = canonicalKey(rawKey)
  /\ UNCHANGED <<rawKey, fmParams, fmLos, handlers, emits, inserts, lastNotificationAt, now, mergePolicy,
               notifications, thresholds, thSerial, thResult, cycles, deviceStatus, statusEvents, query, live>>

NextCanon == Canonicalize

SpecCanon == InitCanon /\ [][NextCanon]_vars

InsertAt(k, pos, c) == SubSeq(k, 1, pos) \o <<c>> \o SubSeq(k, pos + 1, Len(k))

RemoveAt(k, pos) == SubSeq(k, 1, pos - 1) \o SubSeq(k, pos + 1, Len(k))

\* The same letter in the other case (other characters unchanged).
OtherCase(c) ==
  IF \E i \in DOMAIN UpperLetters : UpperLetters[i] = c
    THEN LowerLetters[CHOOSE i \in DOMAIN UpperLetters : UpperLetters[i] = c]
  ELSE IF \E i \in DOMAIN LowerLetters : LowerLetters[i] = c
    THEN UpperLetters[CHOOSE i \in DOMAIN LowerLetters : LowerLetters[i] = c]
  ELSE c

Separators == {" ", "\t", "\n", "-", "_", "(", ")"}

\* The keys one step from k: a separator (white space, hyphen, underscore,
\* parenthesis) inserted or removed, or the case of one letter changed.
OneEdit(k) ==
  {InsertAt(k, pos, c) : pos \in 0..Len(k), c \in Separators}
    \cup {RemoveAt(k, pos) : pos \in {q \in 1..Len(k) : k[q] \in Separators}}
    \cup {[k EXCEPT ![pos] = OtherCase(k[pos])] : pos \in 1..Len(k)}

\* C9: keys that differ only in case or separators have the same canonical
\* form; every other character is kept, in order (letters in lower case); the
\* empty and the undefined key give the empty string; canonicalKey is idempotent.
C9_CanonicalKey ==
  canon # NotRun =>
    LET k == IF rawKey = Undefined THEN <<>> ELSE rawKey
        kept == {j \in 1..Len(k) : k[j] \notin Separators}
    IN /\ \A k2 \in OneEdit(k) : canonicalKey(k2) = canon
       /\ Len(canon) = Cardinality(kept)
       /\ \A j \in kept :
            LET c == canon[Cardinality({q \in kept : q <= j})]
            IN /\ c \in {k[j], OtherCase(k[j])}
               /\ ~\E i \in DOMAIN UpperLetters : UpperLetters[i] = c
       /\ (rawKey = Undefined \/ rawKey = <<>>) => canon = <<>>
       /\ canonicalKey(canon) = canon

\* "A_2" was canonicalised to "a2".
C9_Witness == rawKey = <<"A", "_", "2">> /\ canon = <<"a", "2">>

(***************************************************************************)
(* extractCanonicalLos on its own: a payload of variant and other keys is  *)
(* drawn, then the fields are extracted.                                   *)
(***************************************************************************)

\* The largest number of keys of a field payload.
MaxFieldKeys == 2

K_LOS_TEMP2 == <<"L","o","S","-","T","e","m","p","2">>

\* Every variant of every field as it is spelled in fieldVariants.
RawVariants == UNION {{fieldVariants[f][j] : j \in DOMAIN fieldVariants[f]} : f \in LosFields}

\* Keys that are no variant of any field.
OtherKeys == {K_LOS_TEMP2, K_PPM_INT, K_DEC_PPM}

FieldValues == {Whole(1), V_abc}

FieldPairs == {[k |-> k, v |-> v] : k \in RawVariants \cup OtherKeys, v \in FieldValues}

FieldPayloads == ObjectsOver(FieldPairs, MaxFieldKeys)

InitFields ==
  /\ rawKey = <<>>
  /\ canon = <<>>
  /\ fmParams \in FieldPayloads
  /\ fmLos = NotExtracted
  /\ handlers = <<>>
  /\ emits = <<>>
  /\ inserts = <<>>
  /\ lastNotificationAt = <<>>
  /\ now = StartTime
  /\ mergePolicy = [s \in Serials |-> "IntegerPlusFraction"]
  /\ notifications = <<>>
  /\ thresholds = <<>>
  /\ thSerial = JUndef
  /\ thResult = NotLookedUp
  /\ ClientsIdle
  /\ PingIdle

ExtractFields ==
  /\ fmLos = NotExtracted
  /\ fmLos' = extractCanonicalLos(fmParams)
  /\ UNCHANGED <<rawKey, canon, fmParams, handlers, emits, inserts, lastNotificationAt,
                 now, mergePolicy, notifications, thresholds, thSerial, thResult, cycles, deviceStatus, statusEvents, query, live>>

NextFields == ExtractFields

SpecFields == InitFields /\ [][NextFields]_vars

\* The keys of payload p that are a spelling of a variant of field f.
VariantKeysOf(p, f) == {j \in DOMAIN p : canonicalKey(p[j].k) \in canonicalVariants[f]}

\* C10: when exactly one key of the payload is a variant of field f (the other
\* keys match no variant of f), f resolves to that key's value.
C10_VariantResolves ==
  fmLos # NotExtracted =>
    \A f \in LosFields :
      Cardinality(VariantKeysOf(fmParams, f)) = 1
        => /\ f \in DOMAIN fmLos
           /\ fmLos[f] = fmParams[The(VariantKeysOf(fmParams, f))].v

\* {"LoS-Temp2": 1, "LoS-Temp(c)": "abc"} was extracted and los_temp is "abc".
C10_Witness ==
  /\ fmParams = <<[k |-> K_LOS_TEMP2, v |-> Whole(1)],
                  [k |-> fieldVariants["los_temp"][1], v |-> V_abc]>>
  /\ fmLos # NotExtracted
  /\ fmLos["los_temp"] = V_abc

\* The place in f's variant list of the first variant that key j of p spells.
VariantRank(p, f, j) ==
  SetMin({v \in DOMAIN fieldVariants[f] :
            canonicalKey(fieldVariants[f][v]) = canonicalKey(p[j].k)})

\* C11: when several keys of the payload spell variants of field f, f takes the
\* value of the key whose variant comes first in f's variant list, wherever
\* that key stands in the payload.
C11_VariantListOrderWins ==
  fmLos # NotExtracted =>
    \A f \in LosFields :
      LET keys == VariantKeysOf(fmParams, f)
          best == {j \in keys : \A q \in keys \ {j} :
                     VariantRank(fmParams, f, j) < VariantRank(fmParams, f, q)}
      IN (Cardinality(keys) >= 2 /\ best # {})
           => /\ f \in DOMAIN fmLos
              /\ fmLos[f] = fmParams[The(best)].v

(***************************************************************************)
(* The message pipeline: messages of every kind arrive while earlier       *)
(* handlers are suspended at their awaits, and the clock advances.         *)
(***************************************************************************)

\* The largest number of messages of a behaviour.
MaxMessages == 2

\* The largest number of clock steps of a behaviour.
MaxTicks == 2

\* One clock step: half a cooldown.
TickSecs == NOTIFY_COOLDOWN_SECS \div 2

\* A topic the server handles no messages of.
OTHER_TOPIC == "BivicomData9"

V_serialX == JStr(<<"X">>)

V_indicatorPPM == JStr(<<"P","P","M">>)

Prop(k, v) == [k |-> k, v |-> v]

\* {"LoS - PPM": 42}
B_Ppm42 == ObjectBody(<<Prop(K_LOS_PPM, Whole(42))>>)

\* {"LoS - PPM": 10}
B_Ppm10 == ObjectBody(<<Prop(K_LOS_PPM, Whole(10))>>)

\* {"LoS - PPM": null}
B_PpmNull == ObjectBody(<<Prop(K_LOS_PPM, JNull)>>)

\* {"LoS - PPM": null, "ppm": 50}
B_PpmNullPpm50 == ObjectBody(<<Prop(K_LOS_PPM, JNull), Prop(k_ppm, Whole(50))>>)

\* {"LoS-Temp": "abc"}
B_TempAbc == ObjectBody(<<Prop(K_LOS_TEMP, V_abc)>>)

\* {"serial_number": "X", "LoS - PPM": 42}
B_SerialX == ObjectBody(<<Prop(k_serial_number, V_serialX), Prop(K_LOS_PPM, Whole(42))>>)

\* {"ts": 5, "params": {"LoS - PPM": "42"}}
B_Ts5Params == ObjectBodyWithParams(<<Prop(k_ts, Whole(5))>>, <<Prop(K_LOS_PPM, V_str42)>>)

\* {"ts": 1e20, "LoS - PPM": 42}
B_TsHuge == ObjectBody(<<Prop(k_ts, JHuge), Prop(K_LOS_PPM, Whole(42))>>)

\* {"ts": "abc", "LoS-Temp": 21}
B_TsAbc == ObjectBody(<<Prop(k_ts, V_abc), Prop(K_LOS_TEMP, Whole(21))>>)

\* [42]
B_Array == ArrayBody(<<Prop(<<"0">>, Whole(42))>>)

PipelineBodies ==
  {B_Ppm42, B_Ppm10, B_PpmNull, B_PpmNullPpm50, B_TempAbc, B_SerialX, B_Ts5Params,
   B_TsHuge, B_TsAbc, B_Array, TextBody}

Message(topic, retain, body) == [topic |-> topic, retain |-> retain, body |-> body]

\* Every body on the first data topic; one reading of the other device; a
\* retained reading; a modbus signal; a message of a foreign topic.
PipelineMessages ==
  {Message(MQTT_TOPIC_2, FALSE, b) : b \in PipelineBodies}
    \cup {Message(MQTT_TOPIC_3, FALSE, B_Ppm42), Message(MQTT_TOPIC_2, TRUE, B_Ppm42),
          Message(MODBUS_TOPIC, FALSE, TextBody), Message(OTHER_TOPIC, FALSE, B_Ppm42)}

\* The thresholds table: empty, one row of device 2, one row without a serial,
\* one row of device 3.
PipelineTables ==
  {<<>>,
   <<ThresholdRow(MQTT_TOPIC_2_SERIAL, V_indicatorPPM, Whole(10))>>,
   <<ThresholdRow(JNull, V_indicatorPPM, Whole(10))>>,
   <<ThresholdRow(MQTT_TOPIC_3_SERIAL, V_indicatorPPM, Whole(10))>>}

Init ==
  /\ rawKey = <<>>
  /\ canon = <<>>
  /\ fmParams = <<>>
  /\ fmLos = NotExtracted
  /\ handlers = <<>>
  /\ emits = <<>>
  /\ inserts = <<>>
  /\ lastNotificationAt = <<>>
  /\ now = StartTime
  /\ mergePolicy = [s \in Serials |-> "IntegerPlusFraction"]
  /\ notifications = <<>>
  /\ thresholds \in PipelineTables
  /\ thSerial = JUndef
  /\ thResult = NotLookedUp
  /\ ClientsIdle
  /\ PingIdle

\* A message arrives and its handler runs to its first await.
Receive ==
  /\ Len(handlers) < MaxMessages
  /\ \E m \in PipelineMessages : OnMessage(m.topic, m.retain, m.body)
  /\ UNCHANGED <<rawKey, canon, fmParams, fmLos, mergePolicy, thresholds, thSerial, thResult, cycles, deviceStatus, statusEvents, query, live>>

\* await getLosThreshold(serial_number) returns what the table gives.
HandlerLookupDone ==
  /\ \E h \in DOMAIN handlers :
        ThresholdDone(h, getLosThreshold(thresholds, handlers[h].serial_number))
  /\ UNCHANGED <<rawKey, canon, fmParams, fmLos, mergePolicy, thresholds, thSerial, thResult, cycles, deviceStatus, statusEvents, query, live>>

\* Time passes.
Tick ==
  /\ now + TickSecs <= StartTime + MaxTicks * TickSecs
  /\ now' = now + TickSecs
  /\ UNCHANGED <<rawKey, canon, fmParams, fmLos, handlers, emits, inserts, lastNotificationAt,
                 mergePolicy, notifications, thresholds, thSerial, thResult, cycles, deviceStatus, statusEvents, query, live>>

Next == Receive \/ HandlerInsertDone \/ HandlerLookupDone \/ HandlerNotifyDone \/ Tick

Spec == Init /\ [][Next]_vars

(***************************************************************************)
(* Alerts under concurrency: readings above and at the threshold for both  *)
(* devices, retained and malformed messages, one global threshold.         *)
(***************************************************************************)

AlertMessages ==
  {Message(MQTT_TOPIC_2, FALSE, B_Ppm42), Message(MQTT_TOPIC_3, FALSE, B_Ppm42),
   Message(MQTT_TOPIC_2, FALSE, B_Ppm10), Message(MQTT_TOPIC_2, TRUE, B_Ppm42),
   Message(MQTT_TOPIC_2, FALSE, TextBody), Message(MQTT_TOPIC_2, FALSE, B_Array)}

\* The thresholds table of the alert runs: 10 ppm for every device.
AlertTable == <<ThresholdRow(JNull, V_indicatorPPM, Whole(10))>>

InitAlert ==
  /\ rawKey = <<>>
  /\ canon = <<>>
  /\ fmParams = <<>>
  /\ fmLos = NotExtracted
  /\ handlers = <<>>
  /\ emits = <<>>
  /\ inserts = <<>>
  /\ lastNotificationAt = <<>>
  /\ now = StartTime
  /\ mergePolicy = [s \in Serials |-> "IntegerPlusFraction"]
  /\ notifications = <<>>
  /\ thresholds = AlertTable
  /\ thSerial = JUndef
  /\ thResult = NotLookedUp
  /\ ClientsIdle
  /\ PingIdle

ReceiveAlert ==
  /\ Len(handlers) < MaxMessages
  /\ \E m \in AlertMessages : OnMessage(m.topic, m.retain, m.body)
  /\ UNCHANGED <<rawKey, canon, fmParams, fmLos, mergePolicy, thresholds, thSerial, thResult, cycles, deviceStatus, statusEvents, query, live>>

NextAlert == ReceiveAlert \/ HandlerInsertDone \/ HandlerLookupDone \/ HandlerNotifyDone \/ Tick

SpecAlert == InitAlert /\ [][NextAlert]_vars

(***************************************************************************)
(* Properties of the message handler                                       *)
(***************************************************************************)

\* A finite number.
FiniteNumber(v) == v.t \in {"num", "huge"}

\* C12: each of the five logical fields of every broadcast reading is a finite
\* number or null or absent, never NaN and never a string.
C12_FieldsNumberOrNull ==
  \A i \in MqttMessages :
    \A f \in LosFields :
      f \in DOMAIN emits[i].los
        => (FiniteNumber(emits[i].los[f]) \/ emits[i].los[f].t = "null")

\* The static topic-to-serial mapping.
topicSerial(topic) ==
  IF topic = MQTT_TOPIC_2 THEN MQTT_TOPIC_2_SERIAL
  ELSE IF topic = MQTT_TOPIC_3 THEN MQTT_TOPIC_3_SERIAL
  ELSE JUndef

\* C13: the serial of a reading is the one the topic maps to, also when the
\* payload embeds another: in the broadcast, in the stored row, in the handler
\* (whose serial the threshold lookup takes), in the dispatch and as the key of
\* the cooldown map.
C13_TopicSerialIsUsed ==
  /\ \A i \in MqttMessages : emits[i].serial_number = topicSerial(emits[i].topic)
  /\ \A r \in DOMAIN inserts :
       inserts[r].serial_number = topicSerial(handlers[inserts[r].h].topic)
  /\ \A h \in DOMAIN handlers :
       handlers[h].pc \in {"insert", "threshold", "notify", "done"}
         /\ handlers[h].topic \in DATA_TOPICS
         => handlers[h].serial_number = topicSerial(handlers[h].topic)
  /\ \A n \in DOMAIN notifications :
       notifications[n].serial_number = topicSerial(handlers[notifications[n].h].topic)
  /\ DOMAIN lastNotificationAt \subseteq Serials

\* C14: a message delivered with the retained flag has no effect: its handler
\* ends at once, no event, stored row or dispatch stems from it, and every
\* entry of the cooldown map stems from the dispatch of a message that was not
\* retained.
C14_RetainedHasNoEffect ==
  /\ \A h \in DOMAIN handlers :
       handlers[h].retain
         => /\ handlers[h].pc = "ignored"
            /\ handlers[h].threshold = JUndef
            /\ \A i \in DOMAIN emits : emits[i].h # h
            /\ \A r \in DOMAIN inserts : inserts[r].h # h
            /\ \A n \in DOMAIN notifications : notifications[n].h # h
  /\ \A s \in DOMAIN lastNotificationAt :
       \E n \in DOMAIN notifications :
         /\ notifications[n].serial_number = s
         /\ notifications[n].at = lastNotificationAt[s]
         /\ ~handlers[notifications[n].h].retain

\* A retained reading above the threshold arrived after an alert of its device
\* was recorded.
C14_Witness ==
  \E h \in DOMAIN handlers :
    /\ handlers[h].retain
    /\ handlers[h].pc = "ignored"
    /\ handlers[h].topic = MQTT_TOPIC_2
    /\ h > 1
    /\ MQTT_TOPIC_2_SERIAL \in DOMAIN lastNotificationAt

\* The five stored columns of a row of los_data.
RowFields(row) == {row[f] : f \in LosFields}

\* C15: the storage insert is called only for a reading with at least one
\* non-null logical field: no inserted row has all five columns null.
C15_InsertOnlyWithAField ==
  \A r \in DOMAIN inserts : \E v \in RowFields(inserts[r]) : v.t # "null"

\* Handler h was called with a non-retained message on a data topic whose body
\* is no JSON object (not JSON at all, a JSON scalar, or a JSON array).
Malformed(h) ==
  /\ ~handlers[h].retain
  /\ handlers[h].topic \in DATA_TOPICS
  /\ handlers[h].kind \in {"text", "array"}

\* C16: for a malformed body no row is stored, no threshold is looked up and no
\* notification is dispatched (so the cooldown map gets no entry from it); the
\* one event that may stem from it is the 'mqtt_message' broadcast.
C16_MalformedOnlyBroadcast ==
  \A h \in DOMAIN handlers :
    Malformed(h)
      => /\ handlers[h].pc = "done"
         /\ handlers[h].threshold = JUndef
         /\ \A r \in DOMAIN inserts : inserts[r].h # h
         /\ \A n \in DOMAIN notifications : notifications[n].h # h
         /\ Cardinality({i \in DOMAIN emits : emits[i].h = h}) <= 1
         /\ \A i \in DOMAIN emits : emits[i].h = h => emits[i].event = "mqtt_message"

\* A body that is not JSON and a JSON array were both handled and broadcast.
C16_Witness ==
  \E h1, h2 \in DOMAIN handlers :
    /\ Malformed(h1) /\ handlers[h1].kind = "text"
    /\ Malformed(h2) /\ handlers[h2].kind = "array"
    /\ \E i \in MqttMessages : emits[i].h = h1 /\ emits[i].los = NoLos
    /\ \E i \in MqttMessages : emits[i].h = h2 /\ emits[i].los = NoLos

\* C17: the handler of a non-retained message on a data topic never ends with
\* an exception, whatever the embedded timestamp is, and the reading's
\* recordedAt is the embedded timestamp when that is numeric, else a wall-clock
\* time of the run.
C17_NoExceptionAndRecordedAt ==
  /\ \A h \in DOMAIN handlers : handlers[h].pc # "threw"
  /\ \A i \in MqttMessages :
       IF handlers[emits[i].h].ts.t = "num"
         THEN emits[i].received_at = handlers[emits[i].h].ts.n
         ELSE emits[i].received_at \in StartTime..now

\* C18: any two notification dispatches for one device are at least the
\* cooldown apart, whatever the interleaving of the suspended handlers, and
\* the cooldown map holds the time of the device's latest dispatch.
C18_DispatchesCooldownApart ==
  /\ \A n1, n2 \in DOMAIN notifications :
       (n1 < n2 /\ notifications[n1].serial_number = notifications[n2].serial_number)
         => notifications[n2].at - notifications[n1].at >= NOTIFY_COOLDOWN_SECS
  /\ \A n \in DOMAIN notifications :
       /\ notifications[n].serial_number \in DOMAIN lastNotificationAt
       /\ lastNotificationAt[notifications[n].serial_number] >= notifications[n].at

\* Two readings of one device above the threshold were evaluated inside one
\* cooldown window while the first dispatch was still in flight: the first
\* alerted, the second was suppressed.
C18_Witness ==
  \E h1, h2 \in DOMAIN handlers :
    /\ h1 # h2
    /\ handlers[h1].serial_number = handlers[h2].serial_number
    /\ handlers[h1].pc = "notify"
    /\ \E n \in DOMAIN notifications : notifications[n].h = h1
    /\ handlers[h2].pc = "done"
    /\ handlers[h2].threshold.t = "num"
    /\ handlers[h2].ppmNumber.n > handlers[h2].threshold.n
    /\ \A n \in DOMAIN notifications : notifications[n].h # h2

\* C19: a notification is dispatched only for a reading whose concentration is
\* a number strictly above the threshold the lookup returned for its device;
\* the cooldown map changes only with a dispatch.
C19_DispatchOnlyAboveThreshold ==
  /\ \A n \in DOMAIN notifications :
       LET concentration == pick(handlers[notifications[n].h].los, "los_ppm")
           threshold == notifications[n].threshold
       IN /\ threshold.t = "num"
          /\ concentration.t = "num"
          /\ concentration.n > threshold.n
  /\ \A s \in DOMAIN lastNotificationAt :
       \E n \in DOMAIN notifications :
         notifications[n].serial_number = s /\ notifications[n].at = lastNotificationAt[s]

(***************************************************************************)
(* getLosThreshold on its own: a thresholds table and a serial are drawn,  *)
(* then the threshold is looked up.                                        *)
(***************************************************************************)

\* The largest number of rows of the thresholds table.
MaxThresholdRows == 2

V_indicatorTemp == JStr(<<"t","e","m","p">>)

\* Rows of either device and rows without a serial; indicators that mention
\* ppm, that do not, and none; thresholds as numbers, as text, and unset.
ThresholdRows ==
  {ThresholdRow(s, ind, thr) :
     s \in Serials \cup {JNull},
     ind \in {V_indicatorPPM, V_indicatorTemp, JNull},
     thr \in {Whole(10), Whole(20), V_str42, V_abc}}

ThresholdTables == UNION {[1..n -> ThresholdRows] : n \in 0..MaxThresholdRows}

InitThreshold ==
  /\ rawKey = <<>>
  /\ canon = <<>>
  /\ fmParams = <<>>
  /\ fmLos = NotExtracted
  /\ handlers = <<>>
  /\ emits = <<>>
  /\ inserts = <<>>
  /\ lastNotificationAt = <<>>
  /\ now = StartTime
  /\ mergePolicy = [s \in Serials |-> "IntegerPlusFraction"]
  /\ notifications = <<>>
  /\ thresholds \in ThresholdTables
  /\ thSerial \in Serials \cup {JUndef}
  /\ thResult = NotLookedUp
  /\ ClientsIdle
  /\ PingIdle

LookupThreshold ==
  /\ thResult = NotLookedUp
  /\ thResult' = getLosThreshold(thresholds, thSerial)
  /\ UNCHANGED <<rawKey, canon, fmParams, fmLos, handlers, emits, inserts, lastNotificationAt,
                 now, mergePolicy, notifications, thresholds, thSerial, cycles, deviceStatus, statusEvents, query, live>>

NextThreshold == LookupThreshold

SpecThreshold == InitThreshold /\ [][NextThreshold]_vars

\* The rows of the table configured for serial (JNull: the global rows).
RowsOf(table, serial) ==
  LET ForSerial(r) == r.serial_number = serial
  IN SelectSeq(table, ForSerial)

\* C20: the lookup returns the device's own threshold when it has one, else
\* the global threshold, else null; a threshold of another device is never
\* returned.
C20_OwnThenGlobalThenNull ==
  (thResult # NotLookedUp /\ Truthy(thSerial)) =>
    LET own == pickThresholdFromRows(RowsOf(thresholds, thSerial))
        global == pickThresholdFromRows(RowsOf(thresholds, JNull))
    IN thResult = IF own # JNull THEN own ELSE global

(***************************************************************************)
(* Failures of the storage: the insert or the threshold lookup of a        *)
(* handler may be rejected while other handlers are suspended.             *)
(***************************************************************************)

\* A reading above the threshold and a reading without a concentration.
FaultMessages ==
  {Message(MQTT_TOPIC_2, FALSE, B_Ppm42), Message(MQTT_TOPIC_2, FALSE, B_TsAbc)}

InitFault ==
  /\ rawKey = <<>>
  /\ canon = <<>>
  /\ fmParams = <<>>
  /\ fmLos = NotExtracted
  /\ handlers = <<>>
  /\ emits = <<>>
  /\ inserts = <<>>
  /\ lastNotificationAt = <<>>
  /\ now = StartTime
  /\ mergePolicy = [s \in Serials |-> "IntegerPlusFraction"]
  /\ notifications = <<>>
  /\ thresholds = AlertTable
  /\ thSerial = JUndef
  /\ thResult = NotLookedUp
  /\ ClientsIdle
  /\ PingIdle

ReceiveFault ==
  /\ Len(handlers) < MaxMessages
  /\ \E m \in FaultMessages : OnMessage(m.topic, m.retain, m.body)
  /\ UNCHANGED <<rawKey, canon, fmParams, fmLos, mergePolicy, thresholds, thSerial, thResult, cycles, deviceStatus, statusEvents, query, live>>

HandlerInsertFailed ==
  /\ \E h \in DOMAIN handlers : InsertFailed(h)
  /\ UNCHANGED <<rawKey, canon, fmParams, fmLos, mergePolicy, thresholds, thSerial, thResult, cycles, deviceStatus, statusEvents, query, live>>

HandlerLookupFailed ==
  /\ \E h \in DOMAIN handlers : LookupFailed(h)
  /\ UNCHANGED <<rawKey, canon, fmParams, fmLos, mergePolicy, thresholds, thSerial, thResult, cycles, deviceStatus, statusEvents, query, live>>

NextFault ==
  \/ ReceiveFault
  \/ HandlerInsertDone
  \/ HandlerInsertFailed
  \/ HandlerLookupDone
  \/ HandlerLookupFailed
  \/ HandlerNotifyDone
  \/ Tick

SpecFault == InitFault /\ [][NextFault]_vars

\* C21: a handler whose threshold lookup failed dispatches no notification and
\* leaves the cooldown map as it was (its entries stem from other handlers'
\* dispatches), while its reading was broadcast and its insert issued, and it
\* ends normally.
C21_LookupFailureSkipsAlert ==
  /\ \A h \in DOMAIN handlers :
       "lookup" \in handlers[h].failed
         => /\ handlers[h].pc = "done"
            /\ \A n \in DOMAIN notifications : notifications[n].h # h
            /\ \E i \in MqttMessages : emits[i].h = h
            /\ \E r \in DOMAIN inserts : inserts[r].h = h
  /\ \A s \in DOMAIN lastNotificationAt :
       \E n \in DOMAIN notifications :
         /\ notifications[n].serial_number = s
         /\ notifications[n].at = lastNotificationAt[s]
         /\ "lookup" \notin handlers[notifications[n].h].failed

\* The lookup of a reading above the threshold failed after its device had
\* alerted one cooldown earlier: no second alert.
C21_Witness ==
  \E h \in DOMAIN handlers :
    /\ "lookup" \in handlers[h].failed
    /\ handlers[h].ppmNumber = Whole(42)
    /\ handlers[h].pc = "done"
    /\ handlers[h].serial_number \in DOMAIN lastNotificationAt
    /\ now - lastNotificationAt[handlers[h].serial_number] >= NOTIFY_COOLDOWN_SECS

\* C22: a failed insert does not end the handler with an exception, is not
\* tried again (one insert at most per message), and the handler goes on to the
\* alert evaluation: it is at the lookup or past it when its reading has a
\* numeric concentration, and later messages are handled.
C22_InsertFailureSwallowed ==
  /\ \A h \in DOMAIN handlers :
       Cardinality({r \in DOMAIN inserts : inserts[r].h = h}) <= 1
  /\ \A h \in DOMAIN handlers :
       "insert" \in handlers[h].failed
         => /\ handlers[h].pc \in {"threshold", "notify", "done"}
            /\ (handlers[h].pc = "done" /\ ~IsNaN(handlers[h].ppmNumber))
                 => handlers[h].threshold # JUndef
            /\ IsNaN(handlers[h].ppmNumber) => handlers[h].pc = "done"

\* The insert of a reading above the threshold failed, the reading still
\* alerted, and a later message was handled after the failure.
C22_Witness ==
  \E h1, h2 \in DOMAIN handlers :
    /\ h1 < h2
    /\ "insert" \in handlers[h1].failed
    /\ \E n \in DOMAIN notifications : notifications[n].h = h1
    /\ handlers[h2].pc = "done"
    /\ \E r \in DOMAIN inserts : inserts[r].h = h2

\* The 'mqtt_message' events that stem from handler h.
BroadcastsOf(h) == {i \in MqttMessages : emits[i].h = h}

\* C23: every non-retained message on a data topic is broadcast exactly once as
\* 'mqtt_message' (the emit is part of the handler's first run, before the
\* insert is issued and before the alert evaluation, so a stored row or a
\* dispatch implies the broadcast); a message of a foreign topic is not
\* broadcast.
C23_ExactlyOneBroadcast ==
  /\ \A h \in DOMAIN handlers :
       (~handlers[h].retain /\ handlers[h].topic \in DATA_TOPICS)
         => Cardinality(BroadcastsOf(h)) = 1
  /\ \A r \in DOMAIN inserts : BroadcastsOf(inserts[r].h) # {}
  /\ \A n \in DOMAIN notifications : BroadcastsOf(notifications[n].h) # {}
  /\ \A h \in DOMAIN handlers :
       (handlers[h].topic \notin DATA_TOPICS /\ handlers[h].topic # MODBUS_TOPIC)
         => \A i \in DOMAIN emits : emits[i].h # h

\* C24: the inserts of one device are issued in the order in which their
\* messages arrived (handlers are numbered in arrival order), whatever the
\* interleaving of the suspended handlers.
C24_InsertsInArrivalOrder ==
  \A r1, r2 \in DOMAIN inserts :
    (r1 < r2 /\ inserts[r1].serial_number = inserts[r2].serial_number)
      => inserts[r1].h < inserts[r2].h

\* Two readings of one device were both stored, and the handler of the second
\* got past its insert while the first was still waiting for its own.
C24_Witness ==
  \E r1, r2 \in DOMAIN inserts :
    /\ r1 < r2
    /\ inserts[r1].serial_number = inserts[r2].serial_number
    /\ handlers[inserts[r1].h].pc = "insert"
    /\ handlers[inserts[r2].h].pc = "done"

(***************************************************************************)
(* Repeated payloads: the same bodies arrive more than once, in different  *)
(* states of the cooldown map and of the clock.                            *)
(***************************************************************************)

\* A plain reading, a reading with an embedded timestamp and nested params,
\* one with an embedded serial and one with a text field.
RepeatMessages ==
  {Message(MQTT_TOPIC_2, FALSE, B_Ppm42), Message(MQTT_TOPIC_2, FALSE, B_Ts5Params),
   Message(MQTT_TOPIC_2, FALSE, B_SerialX), Message(MQTT_TOPIC_2, FALSE, B_TempAbc)}

InitRepeat ==
  /\ rawKey = <<>>
  /\ canon = <<>>
  /\ fmParams = <<>>
  /\ fmLos = NotExtracted
  /\ handlers = <<>>
  /\ emits = <<>>
  /\ inserts = <<>>
  /\ lastNotificationAt = <<>>
  /\ now = StartTime
  /\ mergePolicy = [s \in Serials |-> "IntegerPlusFraction"]
  /\ notifications = <<>>
  /\ thresholds = AlertTable
  /\ thSerial = JUndef
  /\ thResult = NotLookedUp
  /\ ClientsIdle
  /\ PingIdle

ReceiveRepeat ==
  /\ Len(handlers) < MaxMessages
  /\ \E m \in RepeatMessages : OnMessage(m.topic, m.retain, m.body)
  /\ UNCHANGED <<rawKey, canon, fmParams, fmLos, mergePolicy, thresholds, thSerial, thResult, cycles, deviceStatus, statusEvents, query, live>>

NextRepeat == ReceiveRepeat \/ HandlerInsertDone \/ HandlerLookupDone \/ HandlerNotifyDone \/ Tick

SpecRepeat == InitRepeat /\ [][NextRepeat]_vars

pipelineVars ==
  <<rawKey, canon, fmParams, fmLos, handlers, emits, inserts, lastNotificationAt, mergePolicy,
    notifications, thresholds, thSerial, thResult>>

\* The variables of the ping monitor.
pingVars == <<cycles, deviceStatus, statusEvents>>

\* No message was received.
PipelineIdle ==
  /\ rawKey = <<>>
  /\ canon = <<>>
  /\ fmParams = <<>>
  /\ fmLos = NotExtracted
  /\ handlers = <<>>
  /\ emits = <<>>
  /\ inserts = <<>>
  /\ lastNotificationAt = <<>>
  /\ mergePolicy = [s \in Serials |-> "IntegerOnly"]
  /\ notifications = <<>>
  /\ thresholds = <<>>
  /\ thSerial = JUndef
  /\ thResult = NotLookedUp

\* Attempts per cycle.
PING_ATTEMPTS == 3

\* The mapping of stations, in the order of Object.entries: one station,
\* as REMOTE_STATIONS_JSON or DEVICE_IP and DEVICE_SERIAL configure it.
deviceIPMapping == <<MQTT_TOPIC_2_SERIAL>>

\* Rounds of the ping loop: the immediate one and the interval's.
MaxRounds == 3

\* What one ping can resolve to: a reply, with its time, or none.
PingOutcomes ==
  {[online |-> TRUE, rtt |-> JNum(12 * Scale)], [online |-> FALSE, rtt |-> JNull]}

\* The result of a cycle that has not returned.
NoResult == [online |-> FALSE, rtt |-> JNull, attempt |-> 0]

\* pingMultipleAttempts at the head of its loop with counter i: the next
\* pingOnce is started or, the loop being over, offline is returned.
loopHead(c, i, attempts) ==
  IF i < attempts
    THEN [c EXCEPT !.pc = "ping", !.i = i]
    ELSE [c EXCEPT !.pc = "returned", !.i = i,
                   !.res = [online |-> FALSE, rtt |-> JNull, attempt |-> attempts]]

\* checkDeviceStatus is called: it calls pingMultipleAttempts, which runs
\* to its first await.
newCycle(serial, attempts) ==
  loopHead([serial |-> serial, pc |-> "start", i |-> 0, results |-> <<>>, delays |-> 0,
            res |-> NoResult, emitted |-> FALSE, doneAt |-> 0], 0, attempts)

delayNeededAlways(i, attempts) == TRUE

\* The wait between two attempts.
delayNeeded(i, attempts) == i < attempts - 1

\* The pingOnce of a cycle resolves.
pingResolved(c, r, attempts) ==
  LET d == [c EXCEPT !.results = Append(@, r.online)]
  IN IF r.online
       THEN [d EXCEPT !.pc = "returned",
                      !.res = [online |-> TRUE, rtt |-> r.rtt, attempt |-> c.i + 1]]
       ELSE IF delayNeeded(c.i, attempts)
              THEN [d EXCEPT !.pc = "delay", !.delays = @ + 1]
              ELSE loopHead(d, c.i + 1, attempts)

\* The timer between two attempts fires.
delayElapsed(c, attempts) == loopHead(c, c.i + 1, attempts)

statusChangedAlways(status, serial, res) == TRUE

\* The test of checkDeviceStatus on the recorded status.
statusChanged(status, serial, res) ==
  serial \notin DOMAIN status \/ status[serial].online # res.online

\* deviceStatus.set
mapSet(status, serial, value) ==
  [x \in DOMAIN status \cup {serial} |-> IF x = serial THEN value ELSE status[x]]

\* The two broadcasts of a changed status.
statusPayloads(serial, res) ==
  <<[event |-> "device_status", serial_number |-> serial, online |-> res.online,
     rtt |-> res.rtt, attempt |-> res.attempt],
    [event |-> "device_ping", serial_number |-> serial, online |-> res.online,
     rtt |-> res.rtt, attempt |-> res.attempt]>>

\* startDevicePingLoop's immediate round or one firing of its interval: a
\* cycle is started for every station, whatever the older cycles do.
StartCycles ==
  /\ Len(cycles) < MaxRounds * Len(deviceIPMapping)
  /\ cycles' = cycles \o [k \in 1..Len(deviceIPMapping) |->
                            newCycle(deviceIPMapping[k], PING_ATTEMPTS)]
  /\ UNCHANGED <<deviceStatus, statusEvents, now>>
  /\ UNCHANGED <<pipelineVars, query, live>>

\* The instants a reading of the clock can give: the one of the last reading
\* or a later one.
ClockReadings == {t \in {now, now + TickSecs} : t <= StartTime + MaxTicks * TickSecs}

\* checkDeviceStatus resumes with the result of pingMultipleAttempts, in the
\* run of promise reactions that follows the last pingOnce of the cycle: c is
\* the cycle and d its record on return.
checkDeviceStatus(c, d) ==
  \E when \in ClockReadings :
    LET changed == statusChanged(deviceStatus, d.serial, d.res)
    IN /\ now' = when
       /\ deviceStatus' = mapSet(deviceStatus, d.serial,
                                 [online |-> d.res.online, rtt |-> d.res.rtt, when |-> when,
                                  attempt |-> d.res.attempt])
       /\ statusEvents' = IF changed THEN statusEvents \o statusPayloads(d.serial, d.res)
                                     ELSE statusEvents
       /\ cycles' = [cycles EXCEPT ![c] = [d EXCEPT !.pc = "done", !.emitted = changed,
                                                    !.doneAt = when]]

\* A cycle goes on to the record d: it awaits again, or it has returned and
\* checkDeviceStatus completes it.
cycleContinues(c, d) ==
  IF d.pc = "returned"
    THEN checkDeviceStatus(c, d)
    ELSE /\ cycles' = [cycles EXCEPT ![c] = d]
         /\ UNCHANGED <<deviceStatus, statusEvents, now>>

PingResolved(c, r) ==
  /\ c \in DOMAIN cycles
  /\ cycles[c].pc = "ping"
  /\ cycleContinues(c, pingResolved(cycles[c], r, PING_ATTEMPTS))
  /\ UNCHANGED <<pipelineVars, query, live>>

DelayElapsed(c) ==
  /\ c \in DOMAIN cycles
  /\ cycles[c].pc = "delay"
  /\ cycleContinues(c, delayElapsed(cycles[c], PING_ATTEMPTS))
  /\ UNCHANGED <<pipelineVars, query, live>>

PingStep == \E c \in 1..Len(cycles) : \E r \in PingOutcomes : PingResolved(c, r)

DelayStep == \E c \in 1..Len(cycles) : DelayElapsed(c)

InitPing ==
  /\ PipelineIdle
  /\ PingIdle
  /\ now = StartTime
  /\ ClientsIdle

NextPing == StartCycles \/ PingStep \/ DelayStep

\* A step of a cycle that is ready.
CycleStep == PingStep \/ DelayStep

\* exec calls back within its timeout and timers fire: the event loop keeps
\* taking the steps that are ready.
SpecPing == InitPing /\ [][NextPing]_vars /\ WF_vars(CycleStep)

\* The cycles that pingMultipleAttempts has returned from.
Returned(c) == cycles[c].pc = "done"

AllFailed(results) == \A k \in 1..Len(results) : ~results[k]

\* What holds of every ping cycle at every moment.
AttemptsWithinLimit ==
  \A c \in DOMAIN cycles :
    LET results == cycles[c].results
        res == cycles[c].res
    IN /\ Len(results) <= PING_ATTEMPTS
       /\ cycles[c].delays <= Len(results)
       /\ cycles[c].delays < PING_ATTEMPTS
       /\ cycles[c].pc = "ping" => cycles[c].delays = Len(results)
       /\ (Returned(c) /\ res.online) =>
            /\ res.attempt = Len(results)
            /\ results[Len(results)]
            /\ AllFailed(SubSeq(results, 1, Len(results) - 1))
            /\ cycles[c].delays = Len(results) - 1
       /\ (Returned(c) /\ ~res.online) =>
            /\ Len(results) = PING_ATTEMPTS
            /\ res.attempt = PING_ATTEMPTS
            /\ AllFailed(results)
            /\ cycles[c].delays = PING_ATTEMPTS - 1

\* C26: pingMultipleAttempts returns from every cycle (time and again all
\* the cycles started so far have returned), after at most
\* `attempts` pings: online with the 1-based number of the first successful
\* attempt, which is the last one it made, or offline after `attempts`
\* failed ones; it has waited once between two attempts and never after the
\* last.
C26_PingCycleTerminates ==
  /\ []AttemptsWithinLimit
  /\ []<>(\A c \in DOMAIN cycles : Returned(c))

\* One cycle gave up after all its attempts and another succeeded at its
\* second attempt, after one wait.
C26_Witness ==
  \E c, d \in DOMAIN cycles :
    /\ Returned(c) /\ ~cycles[c].res.online /\ cycles[c].delays = PING_ATTEMPTS - 1
    /\ Returned(d) /\ cycles[d].res.online /\ cycles[d].res.attempt = 2
    /\ cycles[d].delays = 1

RECURSIVE SelectEvents(_, _, _)
\* The broadcasts of one event name about one station, in order.
SelectEvents(events, name, serial) ==
  IF events = <<>> THEN <<>>
  ELSE LET rest == SelectEvents(Tail(events), name, serial)
       IN IF Head(events).event = name /\ Head(events).serial_number = serial
            THEN <<Head(events)>> \o rest
            ELSE rest

\* The cycles of a station whose checkDeviceStatus has run to its end.
DoneCycles(serial) == {c \in DOMAIN cycles : cycles[c].serial = serial /\ cycles[c].pc = "done"}

PingStations == {deviceIPMapping[k] : k \in DOMAIN deviceIPMapping}

\* C27: a 'device_status' event is broadcast for a station exactly when
\* nothing was recorded for it or the online flag changed: the successive
\* events of a station alternate between online and offline and the last one
\* carries the recorded flag; every completed cycle refreshes the recorded
\* status, changed or not.
C27_StatusEventsAlternate ==
  \A s \in PingStations :
    LET ev == SelectEvents(statusEvents, "device_status", s)
        done == DoneCycles(s)
    IN /\ \A k \in 1..(Len(ev) - 1) : ev[k].online # ev[k + 1].online
       /\ Len(ev) = Cardinality({c \in done : cycles[c].emitted})
       /\ (s \in DOMAIN deviceStatus) = (done # {})
       /\ done # {} =>
            /\ Len(ev) >= 1
            /\ ev[Len(ev)].online = deviceStatus[s].online
            /\ \A c \in done : deviceStatus[s].when >= cycles[c].doneAt
            /\ \E c \in done :
                 /\ deviceStatus[s].when = cycles[c].doneAt
                 /\ deviceStatus[s].online = cycles[c].res.online
                 /\ deviceStatus[s].rtt = cycles[c].res.rtt
                 /\ deviceStatus[s].attempt = cycles[c].res.attempt

\* A station was reported online and then offline, and a later cycle that
\* found it offline again refreshed the recorded time without a broadcast.
C27_Witness ==
  \E s \in PingStations :
    LET ev == SelectEvents(statusEvents, "device_status", s)
    IN /\ Len(ev) = 2 /\ ev[1].online /\ ~ev[2].online
       /\ \E c \in DoneCycles(s) :
            /\ ~cycles[c].emitted
            /\ cycles[c].doneAt > StartTime
            /\ deviceStatus[s].when = cycles[c].doneAt

\* The cycles started for a station, by their place in the order of start.
CyclesOf(serial) == {c \in DOMAIN cycles : cycles[c].serial = serial}

\* The cycle of a station that was started last.
NewestCycle(serial) == CHOOSE c \in CyclesOf(serial) : \A d \in CyclesOf(serial) : d <= c

\* C28: once all the cycles started for a station have completed, the
\* recorded status and the last 'device_status' event are those of the cycle
\* that was started last, overlapping or not.
C28_NewestCycleWins ==
  \A s \in PingStations :
    (CyclesOf(s) # {} /\ DoneCycles(s) = CyclesOf(s)) =>
      LET newest == cycles[NewestCycle(s)].res
          ev == SelectEvents(statusEvents, "device_status", s)
      IN /\ deviceStatus[s].online = newest.online
         /\ ev[Len(ev)].online = newest.online

(***************************************************************************)
(* Query client: paging and the page cache (query-client.js:1395-2274)     *)
(***************************************************************************)

\* Rows of a page, counted in thousands: 2000 in the source.
pageSize == 2

\* The last page index that can be full: the table is finite.
MaxPage == 1

\* Requests under way at one time.
MaxInFlight == 2

\* Clicks and changes of the user in one run.
MaxUserEvents == 5

\* The user acts on the page in state q, which becomes r.
UserEvent(q, r) ==
  /\ q.userEvents < MaxUserEvents
  /\ query' = [r EXCEPT !.userEvents = @ + 1]

\* Values of the from and to inputs: 0 is the empty input, the others are
\* instants.
FromValues == {0, 2}

ToValues == {0, 1}

\* The stations of the station-select.
QueryStations == {MQTT_TOPIC_2_SERIAL, MQTT_TOPIC_3_SERIAL}

\* `f=${from||''}&t=${to||''}&ps=${pageSize}`
hashOf(from, to) == <<from, to, pageSize>>

\* What getParamsForCurrentInputs returns after its alert.
NoParams == [valid |-> FALSE, fromISO |-> 0, toISO |-> 0, hash |-> <<>>]

getParamsForCurrentInputs(q) ==
  IF q.fromInput # 0 /\ q.toInput # 0 /\ q.fromInput > q.toInput
    THEN NoParams
    ELSE [valid |-> TRUE, fromISO |-> q.fromInput, toISO |-> q.toInput,
          hash |-> hashOf(q.fromInput, q.toInput)]

clearCacheForNewQuery(q, newHash) ==
  [q EXCEPT !.pageCache = <<>>, !.lastRequestParamsHash = newHash, !.currentPage = 0,
            !.totalScanInProgressForHash = NoHash]

\* fetchPageRows up to its await: the request carries the range it was given
\* and the station selected now. kind names the caller that awaits it.
fetchPageRows(q, kind, pageIndex, params) ==
  [q EXCEPT !.fetches = Append(@, [kind |-> kind, pageIndex |-> pageIndex,
                                   fromISO |-> params.fromISO, toISO |-> params.toISO,
                                   serial |-> q.station, hash |-> params.hash])]

\* What fetchPageRows returns for a request: null after an error, or the
\* rows the server selected for the request's range, station and offset (an
\* empty array also when the rows repeat the page before).
FetchFailed ==
  [ok |-> FALSE, fromISO |-> 0, toISO |-> 0, serial |-> JNull, pageIndex |-> 0, n |-> 0]

RowsOfFetch(f, n) ==
  [ok |-> TRUE, fromISO |-> f.fromISO, toISO |-> f.toISO, serial |-> f.serial,
   pageIndex |-> f.pageIndex, n |-> n]

FetchResults(f) ==
  {FetchFailed} \cup
  {RowsOfFetch(f, n) : n \in 0..(IF f.pageIndex < MaxPage THEN pageSize ELSE pageSize - 1)}

LastCachedPage(q) == CHOOSE p \in DOMAIN q.pageCache : \A r \in DOMAIN q.pageCache : r <= p

\* computeTotalRowsForQuery up to its first await.
computeTotalRowsForQuery(q, params) ==
  IF DOMAIN q.pageCache = {}
    THEN fetchPageRows(q, "scanFirst", 0, params)
    ELSE fetchPageRows(q, "scan", LastCachedPage(q) + 1, params)

\* The server sends no total, so serverTotalRows stays null and the scan is
\* started whenever none runs for the hash.
startTotalScanForParamsIfNeeded(q, params) ==
  IF q.totalScanInProgressForHash = params.hash
    THEN q
    ELSE computeTotalRowsForQuery([q EXCEPT !.totalScanInProgressForHash = params.hash], params)

\* loadAndRenderPage up to its await.
loadAndRenderPage(q, pageIndex) ==
  LET params == getParamsForCurrentInputs(q)
      q1 == IF params.hash # q.lastRequestParamsHash
              THEN clearCacheForNewQuery(q, params.hash)
              ELSE q
  IN IF ~params.valid THEN q
     ELSE IF pageIndex \in DOMAIN q1.pageCache
            THEN startTotalScanForParamsIfNeeded(q1, params)
            ELSE fetchPageRows(q1, "load", pageIndex, params)

\* The params a caller of fetchPageRows holds while it awaits.
paramsOfFetch(f) == [valid |-> TRUE, fromISO |-> f.fromISO, toISO |-> f.toISO, hash |-> f.hash]

\* loadAndRenderPage after its await.
pageLoaded(q, f, rows) ==
  IF ~rows.ok THEN q
  ELSE IF rows.n = 0 /\ f.pageIndex > 0
    THEN loadAndRenderPage([q EXCEPT !.currentPage = f.pageIndex - 1], f.pageIndex - 1)
    ELSE startTotalScanForParamsIfNeeded(
           [q EXCEPT !.pageCache = mapSet(@, f.pageIndex, rows)], paramsOfFetch(f))

\* The finally of the scan.
scanEnded(q, f) ==
  IF q.totalScanInProgressForHash = f.hash
    THEN [q EXCEPT !.totalScanInProgressForHash = NoHash]
    ELSE q

\* computeTotalRowsForQuery after one of its awaits.
scanPageLoaded(q, f, rows) ==
  IF ~rows.ok THEN scanEnded(q, f)
  ELSE LET q1 == [q EXCEPT !.pageCache = mapSet(@, f.pageIndex, rows)]
       IN IF rows.n < pageSize
            THEN scanEnded(q1, f)
            ELSE fetchPageRows(q1, "scan",
                               IF f.kind = "scanFirst" THEN LastCachedPage(q1) + 1
                                                       ELSE f.pageIndex + 1,
                               paramsOfFetch(f))

\* The request at place i has left the list of those under way.
WithoutFetch(q, i) ==
  [q EXCEPT !.fetches = SubSeq(@, 1, i - 1) \o SubSeq(@, i + 1, Len(@))]

\* The input handlers only refresh the previews.
ChangeFrom(v) ==
  /\ v # query.fromInput
  /\ UserEvent(query, [query EXCEPT !.fromInput = v])
  /\ UNCHANGED <<pipelineVars, pingVars, now, live>>

ChangeTo(v) ==
  /\ v # query.toInput
  /\ UserEvent(query, [query EXCEPT !.toInput = v])
  /\ UNCHANGED <<pipelineVars, pingVars, now, live>>

\* Another option of the station-select is chosen: the query client has no
\* handler for it.
ChangeStation(s) ==
  /\ s # query.station
  /\ UserEvent(query, [query EXCEPT !.station = s])
  /\ UNCHANGED <<pipelineVars, pingVars, now, live>>

ClickFetch ==
  LET params == getParamsForCurrentInputs(query)
  IN /\ Len(query.fetches) < MaxInFlight
     /\ UserEvent(query,
          IF ~params.valid THEN query
          ELSE loadAndRenderPage(
                 [clearCacheForNewQuery(query, params.hash) EXCEPT !.currentPage = 0], 0))
     /\ UNCHANGED <<pipelineVars, pingVars, now, live>>

ClickFirst ==
  /\ Len(query.fetches) < MaxInFlight
  /\ query.currentPage # 0
  /\ UserEvent(query, loadAndRenderPage([query EXCEPT !.currentPage = 0], 0))
  /\ UNCHANGED <<pipelineVars, pingVars, now, live>>

ClickPrev ==
  /\ Len(query.fetches) < MaxInFlight
  /\ query.currentPage > 0
  /\ UserEvent(query, loadAndRenderPage([query EXCEPT !.currentPage = @ - 1], query.currentPage - 1))
  /\ UNCHANGED <<pipelineVars, pingVars, now, live>>

ClickNext ==
  /\ Len(query.fetches) < MaxInFlight
  /\ query.currentPage <= MaxPage
  /\ UserEvent(query, loadAndRenderPage([query EXCEPT !.currentPage = @ + 1], query.currentPage + 1))
  /\ UNCHANGED <<pipelineVars, pingVars, now, live>>

\* The Clear button.
ClickClear ==
  /\ UserEvent(query, [query EXCEPT !.pageCache = <<>>, !.lastRequestParamsHash = <<>>,
                                     !.currentPage = 0, !.totalScanInProgressForHash = NoHash])
  /\ UNCHANGED <<pipelineVars, pingVars, now, live>>

\* The fetch awaited by loadAndRenderPage completes.
PageFetchCompleted ==
  /\ \E i \in DOMAIN query.fetches :
       /\ query.fetches[i].kind = "load"
       /\ \E rows \in FetchResults(query.fetches[i]) :
            query' = pageLoaded(WithoutFetch(query, i), query.fetches[i], rows)
  /\ UNCHANGED <<pipelineVars, pingVars, now, live>>

\* A fetch awaited by the total scan completes.
ScanFetchCompleted ==
  /\ \E i \in DOMAIN query.fetches :
       /\ query.fetches[i].kind \in {"scanFirst", "scan"}
       /\ \E rows \in FetchResults(query.fetches[i]) :
            query' = scanPageLoaded(WithoutFetch(query, i), query.fetches[i], rows)
  /\ UNCHANGED <<pipelineVars, pingVars, now, live>>

InitQuery ==
  /\ PipelineIdle
  /\ PingIdle
  /\ now = StartTime
  /\ ClientsIdle

NextQuery ==
  \/ \E v \in FromValues : ChangeFrom(v)
  \/ \E v \in ToValues : ChangeTo(v)
  \/ \E s \in QueryStations : ChangeStation(s)
  \/ ClickFetch
  \/ ClickFirst
  \/ ClickPrev
  \/ ClickNext
  \/ ClickClear
  \/ PageFetchCompleted
  \/ ScanFetchCompleted

SpecQuery == InitQuery /\ [][NextQuery]_vars

\* C29: every page held in pageCache was fetched with the from/to range of
\* the query that lastRequestParamsHash identifies.
C29_CacheHoldsCurrentQuery ==
  query.lastRequestParamsHash # <<>> =>
    \A p \in DOMAIN query.pageCache :
      hashOf(query.pageCache[p].fromISO, query.pageCache[p].toISO) = query.lastRequestParamsHash

(***************************************************************************)
(* Live client: station selection, status and tiles (client.js:39-594)     *)
(***************************************************************************)

\* Events handled by the live page in one run.
MaxLiveEvents == 6

\* Serials as the server and the stations write them.
SERIAL_A == <<"S","-","1">>

SERIAL_A_PLAIN == <<"s","_","1">>

SERIAL_B == <<"S","2">>

BLANK == <<" ">>

K_RSSI == <<"r","s","s","i">>

K_LOS_PPM_API == <<"l","o","s","_","p","p","m">>

s_los == <<"l","o","s">>

IsSpace(c) == c \in {" ", "\t", "\n"}

SetMax(S) == CHOOSE x \in S : \A y \in S : y <= x

\* String.prototype.trim
trim(s) ==
  LET kept == {i \in DOMAIN s : ~IsSpace(s[i])}
  IN IF kept = {} THEN <<>> ELSE SubSeq(s, SetMin(kept), SetMax(kept))

\* kName.trim().toLowerCase().startsWith('los')
startsWithLos(kName) ==
  LET t == trim(kName)
  IN /\ Len(t) >= Len(s_los)
     /\ \A j \in DOMAIN s_los : toLowerCase(t[j]) = s_los[j]

\* function canonicalMatch(keyA, keyB)
canonicalMatch(keyA, keyB) ==
  LET a == canonicalKey(keyA)
      b == canonicalKey(keyB)
  IN a = b \/ Includes(a, b) \/ Includes(b, a)

\* The first candidate of extractSerialFromMsg that is not blank, trimmed;
\* <<>> stands for null. A candidate a message does not carry is <<>>.
extractSerialFromMsg(msg) ==
  LET candidates == <<msg.serial_number, msg.payload_serial>>
      filled == {i \in DOMAIN candidates : trim(candidates[i]) # <<>>}
  IN IF filled = {} THEN <<>> ELSE trim(candidates[SetMin(filled)])

\* The mismatch test of the handler with every message let through.
serialAcceptedAny(selected, msgCanonical) == TRUE

\* !(!msgCanonical || msgCanonical !== selectedSerial)
serialAccepted(selected, msgCanonical) ==
  msgCanonical # <<>> /\ msgCanonical = selected

\* if (deviceOnline === false) return
readingsIgnored(deviceOnline) == deviceOnline = "false"

\* The los object the handler works on: the server's when it has a key, else
\* the los-like keys of the payload's params.
losOfMessage(msg) ==
  IF msg.los # <<>> THEN msg.los
  ELSE SelectSeq(msg.params, LAMBDA p : startsWithLos(p.k))

\* The first place of los whose key is one of the field's variants.
exactPlaces(los, f) ==
  {i \in DOMAIN los : canonicalKey(los[i].k) \in canonicalVariants[f]}

\* The places of los the tolerant phase tries for variant j of the field.
loosePlaces(los, f, j) ==
  {i \in DOMAIN los : canonicalMatch(los[i].k, fieldVariants[f][j])}

\* The value KEYS.forEach finds for the tile of field f, JUndef when none.
tileValue(los, f) ==
  LET loose == {j \in DOMAIN fieldVariants[f] : loosePlaces(los, f, j) # {}}
  IN IF exactPlaces(los, f) # {} THEN los[SetMin(exactPlaces(los, f))].v
     ELSE IF loose # {} THEN los[SetMin(loosePlaces(los, f, SetMin(loose)))].v
     ELSE IF f = "los_ppm" THEN Get(los, K_LOS_PPM_API)
     ELSE JUndef

\* KEYS.forEach of the handler: the tiles after a reading that arrived as
\* event number stamp in a message of serial rawSerial.
tilesAfter(latest, los, rawSerial, stamp) ==
  [f \in LosFields |->
     IF tileValue(los, f) = JUndef THEN latest[f]
     ELSE [value |-> tileValue(los, f), updated_at |-> stamp, by |-> rawSerial]]

\* function clearAllReadings
clearAllReadings(l) == [l EXCEPT !.latest = [f \in LosFields |-> EmptyTile]]

\* function applySelectedDeviceStatus
applySelectedDeviceStatus(l) ==
  [l EXCEPT !.deviceOnline =
     IF l.selectedSerial = <<>> \/ l.selectedSerial \notin DOMAIN l.deviceStatusMap THEN "null"
     ELSE IF l.deviceStatusMap[l.selectedSerial].online THEN "true" ELSE "false"]

\* One status object stored into deviceStatusMap under its canonical serial.
statusStored(l, s) ==
  IF s.serial_number = <<>> THEN l
  ELSE [l EXCEPT !.deviceStatusMap = mapSet(@, canonicalKey(s.serial_number), [online |-> s.online])]

RECURSIVE snapshotStored(_, _)
\* The for loop of initStatusSnapshot over the list of the answer.
snapshotStored(l, list) ==
  IF list = <<>> THEN l ELSE snapshotStored(statusStored(l, Head(list)), Tail(list))

\* The handler of 'device_status'.
onDeviceStatus(l, s) ==
  LET stored == statusStored(l, s)
  IN IF s.serial_number # <<>> /\ l.selectedSerial # <<>>
        /\ canonicalKey(s.serial_number) = l.selectedSerial
       THEN applySelectedDeviceStatus(stored)
       ELSE stored

\* fetchRemoteStationsAndPopulate after its awaits: the options, and the first
\* station selected when there is one.
stationsPopulated(l, list, stamp) ==
  LET options == [i \in DOMAIN list |-> canonicalKey(list[i])]
      l1 == [l EXCEPT !.stations = options, !.phase = "snapshot"]
  IN IF list # <<>>
       THEN clearAllReadings(applySelectedDeviceStatus(
              [l1 EXCEPT !.selectedSerial = options[1], !.selectedAt = stamp]))
       ELSE [l1 EXCEPT !.selectedSerial = <<>>]

\* The 'change' handler of the station-select.
onStationChange(l, val, stamp) ==
  IF val = <<>> THEN l
  ELSE clearAllReadings(applySelectedDeviceStatus(
         [l EXCEPT !.selectedSerial = val, !.selectedAt = stamp]))

\* The handler of 'mqtt_message'.
onMqttMessage(l, msg, stamp) ==
  LET rawSerial == extractSerialFromMsg(msg)
      msgCanonical == IF rawSerial # <<>> THEN canonicalKey(rawSerial) ELSE <<>>
      los == losOfMessage(msg)
  IN IF l.selectedSerial = <<>> THEN l
     ELSE IF ~serialAccepted(l.selectedSerial, msgCanonical) THEN l
     ELSE IF los = <<>> THEN l
     ELSE IF readingsIgnored(l.deviceOnline) THEN l
     ELSE [l EXCEPT !.latest = tilesAfter(@, los, rawSerial, stamp)]

NoMessage == [kind |-> "none", matched |-> FALSE, offline |-> FALSE, changed |-> FALSE]

\* What the last event was when it was an 'mqtt_message': whether its serial
\* is canonically the selected station, whether deviceStatusMap holds the
\* selected station as offline, and whether the handler changed a tile.
messageHandled(l, msg, after) ==
  [kind |-> "mqtt",
   matched |-> l.selectedSerial # <<>>
               /\ canonicalKey(extractSerialFromMsg(msg)) = l.selectedSerial,
   offline |-> /\ l.selectedSerial \in DOMAIN l.deviceStatusMap
               /\ ~l.deviceStatusMap[l.selectedSerial].online,
   changed |-> after.latest # l.latest]

\* The answers of /api/remote_stations: no station (or a failed fetch), or
\* two of them.
StationLists == {<<>>, <<SERIAL_A, SERIAL_B>>}

\* The status objects the server sends.
StatusObjects == [serial_number : {SERIAL_A, SERIAL_B}, online : BOOLEAN]

\* The answers of /_device_status.
SnapshotLists ==
  {<<>>,
   <<[serial_number |-> SERIAL_A, online |-> FALSE]>>,
   <<[serial_number |-> SERIAL_A, online |-> TRUE], [serial_number |-> SERIAL_B, online |-> FALSE]>>}

L_A_Temp ==
  [serial_number |-> SERIAL_A, payload_serial |-> <<>>,
   los |-> <<[k |-> K_LOS_TEMP, v |-> JNum(21 * Scale)]>>, params |-> <<>>]

L_APlain_Ppm ==
  [serial_number |-> BLANK, payload_serial |-> SERIAL_A_PLAIN,
   los |-> <<[k |-> K_LOS_PPM_API, v |-> JNum(50 * Scale)]>>, params |-> <<>>]

L_B_Ppm ==
  [serial_number |-> SERIAL_B, payload_serial |-> <<>>,
   los |-> <<[k |-> K_LOS_PPM, v |-> JNum(60 * Scale)]>>, params |-> <<>>]

L_None_Temp ==
  [serial_number |-> <<>>, payload_serial |-> <<>>,
   los |-> <<[k |-> K_LOS_TEMP, v |-> JNum(30 * Scale)]>>, params |-> <<>>]

L_A_NoLos ==
  [serial_number |-> SERIAL_A, payload_serial |-> <<>>,
   los |-> <<>>, params |-> <<[k |-> K_RSSI, v |-> JNum(5 * Scale)]>>]

L_A_Params ==
  [serial_number |-> SERIAL_A, payload_serial |-> <<>>,
   los |-> <<>>, params |-> <<[k |-> K_RSSI, v |-> JNum(5 * Scale)],
                              [k |-> K_LOS_TEMP2, v |-> JNum(25 * Scale)]>>]

LiveMessages == {L_A_Temp, L_APlain_Ppm, L_B_Ppm, L_None_Temp, L_A_NoLos, L_A_Params}

\* The page handles one more event and is left in state r.
LiveEvent(r, last) ==
  /\ live.events < MaxLiveEvents
  /\ live' = [r EXCEPT !.events = @ + 1, !.last = last]
  /\ UNCHANGED <<pipelineVars, pingVars, now, query>>

StationsLoaded(list) ==
  /\ live.phase = "loading"
  /\ LiveEvent(stationsPopulated(live, list, live.events + 1), NoMessage)

\* initStatusSnapshot after its awaits.
SnapshotLoaded(list) ==
  /\ live.phase = "snapshot"
  /\ LiveEvent(applySelectedDeviceStatus(
                 [snapshotStored(live, list) EXCEPT !.phase = "ready"]), NoMessage)

\* The user picks another option of the station-select.
SelectStation(val) ==
  /\ \E i \in DOMAIN live.stations : live.stations[i] = val
  /\ val # live.selectedSerial
  /\ LiveEvent(onStationChange(live, val, live.events + 1), NoMessage)

DeviceStatusEvent(s) == LiveEvent(onDeviceStatus(live, s), NoMessage)

MqttMessage(msg) ==
  LET after == onMqttMessage(live, msg, live.events + 1)
  IN LiveEvent(after, messageHandled(live, msg, after))

InitLive ==
  /\ PipelineIdle
  /\ PingIdle
  /\ now = StartTime
  /\ ClientsIdle

NextLive ==
  \/ \E list \in StationLists : StationsLoaded(list)
  \/ \E list \in SnapshotLists : SnapshotLoaded(list)
  \/ \E val \in {canonicalKey(SERIAL_A), canonicalKey(SERIAL_B)} : SelectStation(val)
  \/ \E s \in StatusObjects : DeviceStatusEvent(s)
  \/ \E msg \in LiveMessages : MqttMessage(msg)

SpecLive == InitLive /\ [][NextLive]_vars

\* C30: every tile that shows a value got it from an 'mqtt_message' whose
\* serial is canonically the selected station and that arrived after the
\* selection; and a message of another or no serial, or one that arrives
\* while the selected station is known to be offline, changes no tile.
C30_TilesShowSelectedStation ==
  /\ \A f \in LosFields :
       live.latest[f].value # JNull =>
         /\ live.selectedSerial # <<>>
         /\ canonicalKey(live.latest[f].by) = live.selectedSerial
         /\ live.latest[f].updated_at > live.selectedAt
  /\ (live.last.kind = "mqtt" /\ (~live.last.matched \/ live.last.offline)) =>
       ~live.last.changed

\* A reading of the second spelling of the selected serial is shown after the
\* station was selected again, and the message just handled was dropped
\* because the station is offline.
C30_Witness ==
  /\ live.selectedSerial = canonicalKey(SERIAL_A)
  /\ live.selectedAt > 1
  /\ live.latest["los_ppm"].value = JNum(50 * Scale)
  /\ live.latest["los_ppm"].by = SERIAL_A_PLAIN
  /\ live.last.kind = "mqtt"
  /\ live.last.matched
  /\ live.last.offline

====
